---- MODULE Spec2Model ----
(***************************************************************************)
(* Model of integrated_test_generator.py (class IntegratedTestGenerator). *)
(*                                                                         *)
(* Text is modelled at character level: a Python str without newlines is  *)
(* a sequence of one-character strings, and a multi-line str is the       *)
(* sequence of its lines (what str.split('\n') returns).                  *)
(***************************************************************************)
EXTENDS Integers, Sequences, FiniteSets, TLC

VARIABLES
    \* ---- Role Classifier (_classify_file_role) ----
    filename,            \* the filename argument
    role_calls,          \* the calls made so far: <<[content, imports, role]>>
    \* ---- Flow Document Parser (_parse_user_flows) ----
    user_flows_content,  \* the document, as the list of its lines
    flows,               \* the list the parser returned
    flows_pc,            \* "start" before the call, "done" after it
    \* ---- Graph Builder (_build_dependency_graph) ----
    files,               \* the collected file paths, in collection order
    file_reads,          \* per file handled so far: the content read, or ReadError
    graph_nodes,         \* nodes of the DiGraph
    graph_edges,         \* edges of the DiGraph, as pairs <<from, to>>
    file_roles,          \* dict basename -> role
    route_map,           \* dict basename -> routes
    \* ---- the run (generate_tests) ----
    pc,                  \* the step generate_tests is about to execute
    repo_url,            \* the repo_url argument
    temp_dir,            \* self.temp_dir (None is the empty string here)
    existing_dirs,       \* the directories that exist on the filesystem
    raised_at,           \* the step whose exception reached the except clause
    result,              \* what generate_tests returned
    cleanup_calls,       \* number of calls of _cleanup_temp_directory
    trace,               \* the steps executed, in order
    flow_log,            \* per flow handled: request outcome, content, saved
    test_files,          \* the list test_files of generate_tests
    disk,                \* TEST_OUTPUT_DIR: dict filename -> content
    validation_results,  \* what _validate_tests returned
    \* ---- the extraction cascade (_parse_test_files) ----
    response_text,       \* the response_text argument, as the list of its lines
    parse_pc,            \* the strategy _parse_test_files is about to call
    files_saved,         \* the list files_saved of _parse_test_files
    save_log,            \* the calls of _save_file so far, in order
    \* ---- Artifact Validator (_is_valid_test_content) ----
    valid_content,       \* the content argument, as the list of its lines
    valid_pc,            \* "start" before the call, "done" after it
    is_valid,            \* what the call returned
    \* ---- Feature Synthesizer (_extract_features) ----
    analysis_routes,     \* analysis["routes"]
    analysis_pages,      \* analysis["pages"]
    features,            \* the list returned
    feat_pc,             \* "start" before the call, "done" after it
    \* ---- Application analysis (_analyze_application_functionality) ----
    an_files,            \* self.files
    an_reads,            \* what reading each file handled so far gave
    analysis_api,        \* analysis["api_endpoints"]
    analysis_forms,      \* analysis["forms"]
    analysis_flows,      \* analysis["user_flows"]
    \* ---- Source Collector (_collect_source_files) ----
    tree,                \* the files under self.temp_dir, in the order os.walk gives them
    ext_i,               \* index of the extension the outer loop is at
    walk_i,              \* index of the file the walk is at
    collected,           \* the list files of _collect_source_files
    collect_pc,          \* "walking", "returned" or "raised"
    \* ---- content of one flow (_extract_test_content_from_response) ----
    flow_response,       \* the response_text argument, as the list of its lines
    flow_fname,          \* the filename argument
    flow_content,        \* what the call returned
    content_pc           \* "start", "extracted", then "saved", "save_failed" or "no_content"

roleVars == <<filename, role_calls>>
flowVars == <<user_flows_content, flows, flows_pc>>
graphVars == <<files, file_reads, graph_nodes, graph_edges, file_roles, route_map>>
runVars == <<pc, repo_url, temp_dir, existing_dirs, raised_at, result, cleanup_calls,
             trace, flow_log, test_files, disk, validation_results>>
extractVars == <<response_text, parse_pc, files_saved, save_log>>
validVars == <<valid_content, valid_pc, is_valid>>
featVars == <<analysis_routes, analysis_pages, features, feat_pc>>
analyzeVars == <<an_files, an_reads, analysis_api, analysis_forms, analysis_flows>>
collectVars == <<tree, ext_i, walk_i, collected, collect_pc>>
contentVars == <<flow_response, flow_fname, flow_content, content_pc>>
vars == <<roleVars, flowVars, graphVars, runVars, extractVars, validVars, featVars,
          analyzeVars, collectVars, contentVars>>

\* what the actions of one component leave alone
notRole  == <<flowVars, graphVars, runVars, extractVars, validVars, featVars, analyzeVars,
            collectVars, contentVars>>
notFlows == <<roleVars, graphVars, runVars, extractVars, validVars, featVars, analyzeVars,
            collectVars, contentVars>>
notGraph == <<roleVars, flowVars, runVars, extractVars, validVars, featVars, analyzeVars,
            collectVars, contentVars>>
notRun   == <<roleVars, graphVars, flows_pc, extractVars, validVars, featVars, analyzeVars,
            collectVars, contentVars>>
notExtract == <<roleVars, flowVars, graphVars, pc, repo_url, temp_dir, existing_dirs,
                raised_at, result, cleanup_calls, trace, flow_log, test_files,
                validation_results, validVars, featVars, analyzeVars,
            collectVars, contentVars>>

notValid == <<roleVars, flowVars, graphVars, runVars, extractVars, featVars, analyzeVars,
            collectVars, contentVars>>

notFeat == <<roleVars, flowVars, graphVars, runVars, extractVars, validVars, analyzeVars,
            collectVars, contentVars>>

\* the analysis fills the lists the feature synthesizer reads
notAnalyze == <<roleVars, flowVars, graphVars, runVars, extractVars, validVars, collectVars,
               contentVars>>

notCollect == <<roleVars, flowVars, graphVars, runVars, extractVars, validVars, featVars,
               analyzeVars, contentVars>>

notContent == <<roleVars, flowVars, graphVars, runVars, extractVars, validVars, featVars,
               analyzeVars, collectVars>>

\* the empty dict
EmptyDict == [k \in {} |-> {}]

(***************************************************************************)
(* Python str primitives                                                   *)
(***************************************************************************)
UpperAlphabet == <<"A","B","C","D","E","F","G","H","I","J","K","L","M","N","O","P","Q","R","S","T","U","V","W","X","Y","Z">>
LowerAlphabet == <<"a","b","c","d","e","f","g","h","i","j","k","l","m","n","o","p","q","r","s","t","u","v","w","x","y","z">>

LowerOf == [c \in {UpperAlphabet[i] : i \in 1..Len(UpperAlphabet)} |->
               LowerAlphabet[CHOOSE i \in 1..Len(UpperAlphabet) : UpperAlphabet[i] = c]]

\* str.lower() on one character
LowerChar(c) == IF c \in DOMAIN LowerOf THEN LowerOf[c] ELSE c

\* str.lower()
ToLower(s) == [i \in 1..Len(s) |-> LowerChar(s[i])]

\* sub in s
Contains(s, sub) ==
    \E i \in 0..(Len(s) - Len(sub)) : SubSeq(s, i + 1, i + Len(sub)) = sub

\* s.startswith(p)
StartsWith(s, p) == Len(p) <= Len(s) /\ SubSeq(s, 1, Len(p)) = p

\* s.endswith(p)
EndsWith(s, p) == Len(p) <= Len(s) /\ SubSeq(s, Len(s) - Len(p) + 1, Len(s)) = p

\* the characters str.strip() removes (a line holds no newline)
Whitespace == {" ", "\t", "\r"}

\* str.strip() on one line
RECURSIVE LStrip(_)
LStrip(s) == IF s # <<>> /\ s[1] \in Whitespace THEN LStrip(Tail(s)) ELSE s
RECURSIVE RStrip(_)
RStrip(s) ==
    IF s # <<>> /\ s[Len(s)] \in Whitespace THEN RStrip(SubSeq(s, 1, Len(s) - 1)) ELSE s
Strip(s) == RStrip(LStrip(s))

\* str.replace(old, new): left to right, non-overlapping, one pass
RECURSIVE Replace(_, _, _)
Replace(s, old, new) ==
    IF s = <<>> THEN <<>>
    ELSE IF StartsWith(s, old)
         THEN new \o Replace(SubSeq(s, Len(old) + 1, Len(s)), old, new)
         ELSE <<s[1]>> \o Replace(Tail(s), old, new)

\* concatenation of a sequence of strings
RECURSIVE Concat(_)
Concat(ss) == IF ss = <<>> THEN <<>> ELSE Head(ss) \o Concat(Tail(ss))

\* all sequences over S of length lo..hi
SeqsOf(S, lo, hi) == UNION {[1..n -> S] : n \in lo..hi}

(***************************************************************************)
(* Role Classifier                                                         *)
(***************************************************************************)
S_route   == <<"r","o","u","t","e">>
S_router  == <<"r","o","u","t","e","r">>
S_api     == <<"a","p","i">>
S_service == <<"s","e","r","v","i","c","e">>
S_form    == <<"f","o","r","m">>
S_input   == <<"i","n","p","u","t">>
S_tsx     == <<".","t","s","x">>
S_jsx     == <<".","j","s","x">>
S_vue     == <<".","v","u","e">>
S_ts      == <<".","t","s">>
S_js      == <<".","j","s">>
S_html    == <<".","h","t","m","l">>

Roles == {"Route", "API", "Component", "Form", "Other"}

\* the extensions rule 3 looks for
ComponentExts == {S_tsx, S_jsx, S_vue}

\* C6 mutant: the role is decided from the content as well
ClassifyConsultingContent(fname, content, imports) ==
    LET filename_lower == ToLower(fname)
        content_lower  == ToLower(content)
    IN  IF Contains(filename_lower, S_route) \/ Contains(content_lower, S_route)
        THEN "Route"
        ELSE IF Contains(filename_lower, S_api) \/ Contains(filename_lower, S_service)
        THEN "API"
        ELSE IF \E ext \in ComponentExts : Contains(filename_lower, ext)
        THEN "Component"
        ELSE IF Contains(filename_lower, S_form) \/ Contains(filename_lower, S_input)
        THEN "Form"
        ELSE "Other"

\* C7 mutant: the component rule is tried before the API rule
ClassifyComponentBeforeAPI(fname, content, imports) ==
    LET filename_lower == ToLower(fname)
    IN  IF Contains(filename_lower, S_route) \/ Contains(filename_lower, S_router)
        THEN "Route"
        ELSE IF \E ext \in ComponentExts : Contains(filename_lower, ext)
        THEN "Component"
        ELSE IF Contains(filename_lower, S_api) \/ Contains(filename_lower, S_service)
        THEN "API"
        ELSE IF Contains(filename_lower, S_form) \/ Contains(filename_lower, S_input)
        THEN "Form"
        ELSE "Other"

\* C8 mutant: the form rule is tried before the component rule
ClassifyFormBeforeComponent(fname, content, imports) ==
    LET filename_lower == ToLower(fname)
    IN  IF Contains(filename_lower, S_route) \/ Contains(filename_lower, S_router)
        THEN "Route"
        ELSE IF Contains(filename_lower, S_api) \/ Contains(filename_lower, S_service)
        THEN "API"
        ELSE IF Contains(filename_lower, S_form) \/ Contains(filename_lower, S_input)
        THEN "Form"
        ELSE IF \E ext \in ComponentExts : Contains(filename_lower, ext)
        THEN "Component"
        ELSE "Other"

\* _classify_file_role(filename, content, imports)
ClassifyFileRole(fname, content, imports) ==
    LET filename_lower == ToLower(fname)
        content_lower  == ToLower(content)
    IN  IF Contains(filename_lower, S_route) \/ Contains(filename_lower, S_router)
        THEN "Route"
        ELSE IF Contains(filename_lower, S_api) \/ Contains(filename_lower, S_service)
        THEN "API"
        ELSE IF \E ext \in ComponentExts : Contains(filename_lower, ext)
        THEN "Component"
        ELSE IF Contains(filename_lower, S_form) \/ Contains(filename_lower, S_input)
        THEN "Form"
        ELSE "Other"

\* ---- inputs of the classifier ----
MaxStemParts == 2
MaxCalls == 2

StemParts == { <<"U","s","e","r">>, <<"F","o","r","m">>, <<"A","p","i">>,
               <<"R","o","u","t","e","r">>, <<"S","e","r","v","i","c","e">>,
               <<"i","n","p","u","t">>, <<"x">> }

\* the extensions _collect_source_files accepts, and one doubled extension
FileExts == { S_tsx, S_jsx, S_js, S_ts, S_vue, S_html, S_vue \o S_js }

Filenames ==
    { Concat(st) \o ext : st \in SeqsOf(StemParts, 1, MaxStemParts), ext \in FileExts }

\* the (content, imports) pairs a call is given
CallInputs ==
    { [content |-> <<>>, imports |-> <<>>],
      [content |-> <<"i","m","p","o","r","t"," ","r","o","u","t","e">>,
       imports |-> << <<"r","e","a","c","t">> >>],
      [content |-> <<"/","/"," ","A","P","I"," ","f","o","r","m">>, imports |-> <<>>] }

IdleRole == filename = <<>> /\ role_calls = <<>>
IdleFlows == user_flows_content = <<>> /\ flows = <<>> /\ flows_pc = "idle"
IdleGraph ==
    /\ files = <<>> /\ file_reads = <<>> /\ graph_nodes = {} /\ graph_edges = {}
    /\ file_roles = EmptyDict /\ route_map = EmptyDict
IdleExtract ==
    /\ response_text = <<>> /\ parse_pc = "idle" /\ files_saved = <<>> /\ save_log = <<>>
IdleValid == valid_content = <<>> /\ valid_pc = "idle" /\ is_valid = FALSE
IdleFeat == analysis_routes = <<>> /\ analysis_pages = <<>> /\ features = <<>> /\ feat_pc = "idle"
IdleAnalyze ==
    /\ an_files = <<>> /\ an_reads = <<>>
    /\ analysis_api = <<>> /\ analysis_forms = <<>> /\ analysis_flows = <<>>
IdleContent ==
    /\ flow_response = <<>> /\ flow_fname = <<>> /\ flow_content = <<>> /\ content_pc = "idle"
IdleCollect ==
    /\ tree = <<>> /\ ext_i = 0 /\ walk_i = 0 /\ collected = <<>> /\ collect_pc = "idle"
IdleRun ==
    /\ pc = "idle" /\ repo_url = <<>> /\ temp_dir = <<>> /\ existing_dirs = {}
    /\ raised_at = "none" /\ result = [status |-> "none"] /\ cleanup_calls = 0
    /\ trace = <<>> /\ flow_log = <<>> /\ test_files = <<>> /\ disk = EmptyDict
    /\ validation_results = [status |-> "none"]

InitRole ==
    /\ filename \in Filenames
    /\ role_calls = <<>>
    /\ IdleFlows /\ IdleGraph /\ IdleRun /\ IdleExtract /\ IdleValid /\ IdleFeat /\ IdleAnalyze
    /\ IdleCollect /\ IdleContent

ClassifyFile(content, imports) ==
    /\ Len(role_calls) < MaxCalls
    /\ role_calls' = Append(role_calls,
                            [content |-> content, imports |-> imports,
                             role |-> ClassifyFileRole(filename, content, imports)])
    /\ UNCHANGED <<filename, notRole>>

NextRole == \E inp \in CallInputs : ClassifyFile(inp.content, inp.imports)

SpecRole == InitRole /\ [][NextRole]_vars

(***************************************************************************)
(* Flow Document Parser                                                    *)
(***************************************************************************)
S_FlowMarker == <<"#","#"," ","F","l","o","w",":">>
S_spec_ts    == <<".","s","p","e","c",".","t","s">>

\* _generate_flow_filename(flow_name)
GenerateFlowFilename(flow_name) ==
    LET f1 == ToLower(flow_name)
        f2 == Replace(f1, <<" ">>, <<"_">>)
        f3 == Replace(f2, <<":">>, <<>>)
        f4 == Replace(f3, <<"-">>, <<"_">>)
        f5 == Replace(f4, <<"_","_">>, <<"_">>)
    IN  f5 \o S_spec_ts

\* The loop state of _parse_user_flows: the flows appended so far and
\* current_flow (<<>> for None, else a one-element list).  A flow's content
\* is kept as the list of its newline-terminated lines.
EmptyParse == [flows |-> <<>>, current |-> <<>>]

\* C10 mutant: a new heading does not start a fresh content
FlowLineKeepsOldContent(acc, raw) ==
    LET line == Strip(raw)
    IN  IF StartsWith(line, S_FlowMarker)
        THEN LET flow_name == Strip(Replace(line, S_FlowMarker, <<>>))
                 old == IF acc.current = <<>> THEN <<>> ELSE acc.current[1].content
             IN  [flows   |-> acc.flows \o acc.current,
                  current |-> << [name |-> flow_name,
                                  content |-> old \o <<line>>,
                                  filename |-> GenerateFlowFilename(flow_name)] >>]
        ELSE IF acc.current # <<>>
        THEN [acc EXCEPT !.current[1].content = @ \o <<line>>]
        ELSE acc

\* one iteration of the loop over the lines
FlowLine(acc, raw) ==
    LET line == Strip(raw)
    IN  IF StartsWith(line, S_FlowMarker)
        THEN LET flow_name == Strip(Replace(line, S_FlowMarker, <<>>))
             IN  [flows   |-> acc.flows \o acc.current,
                  current |-> << [name |-> flow_name,
                                  content |-> <<line>>,
                                  filename |-> GenerateFlowFilename(flow_name)] >>]
        ELSE IF acc.current # <<>>
        THEN [acc EXCEPT !.current[1].content = @ \o <<line>>]
        ELSE acc

RECURSIVE FlowLoop(_, _)
FlowLoop(acc, lines) ==
    IF lines = <<>> THEN acc ELSE FlowLoop(FlowLine(acc, Head(lines)), Tail(lines))

\* _parse_user_flows(user_flows_content)
ParseUserFlows(lines) ==
    LET acc == FlowLoop(EmptyParse, lines)
    IN  acc.flows \o acc.current

\* ---- inputs of the parser ----
MaxDocLines == 4

L_Create   == <<"#","#"," ","F","l","o","w",":"," ","C","r","e","a","t","e"," ","I","t","e","m">>
L_Delete   == <<"#","#"," ","F","l","o","w",":"," ","D","e","l","e","t","e"," ","I","t","e","m">>
L_Indented == <<" "," ","#","#"," ","F","l","o","w",":"," ","A">>
L_Twice    == <<"#","#"," ","F","l","o","w",":"," ","A"," ","#","#"," ","F","l","o","w",":"," ","B">>
L_step1    == <<"s","t","e","p","1">>
L_step2    == <<" "," ","-"," ","s","t","e","p","2">>
L_blank    == <<>>
L_Dash     == <<"#","#"," ","F","l","o","w",":"," ","A"," ","-"," ","B">>
L_Mention  == <<"s","e","e"," ","#","#"," ","F","l","o","w",":"," ","A">>

DocLines == {L_Create, L_Delete, L_Indented, L_Twice, L_Dash, L_step1, L_step2, L_blank,
             L_Mention}

\* str.split('\n') never returns an empty list
Documents == SeqsOf(DocLines, 1, MaxDocLines)

InitFlows ==
    /\ user_flows_content \in Documents
    /\ flows = <<>>
    /\ flows_pc = "start"
    /\ IdleRole /\ IdleGraph /\ IdleRun /\ IdleExtract /\ IdleValid /\ IdleFeat /\ IdleAnalyze
    /\ IdleCollect /\ IdleContent

ParseFlows ==
    /\ flows_pc = "start"
    /\ flows' = ParseUserFlows(user_flows_content)
    /\ flows_pc' = "done"
    /\ UNCHANGED <<user_flows_content, notFlows>>

NextFlows == ParseFlows

SpecFlows == InitFlows /\ [][NextFlows]_vars

(***************************************************************************)
(* Graph Builder                                                           *)
(*                                                                         *)
(* A file's content is the set of the statements in it that the patterns   *)
(* of _extract_imports and _extract_routes look at: [kind, path], where    *)
(* path is the quoted string and kind says what surrounds it.              *)
(***************************************************************************)
\* os.path.basename(path)
Basename(path) ==
    LET slashes == { i \in 1..Len(path) : path[i] = "/" }
    IN  IF slashes = {} THEN path
        ELSE SubSeq(path, (CHOOSE i \in slashes : \A j \in slashes : j <= i) + 1, Len(path))

\* kinds of statement:  import X from 'p' | import 'p' | require('p') |
\* export * from 'p' | const s = 'p' | path='p' | to='p' | href='p' | navigate('p')
ImportKinds == {"import_from", "import_bare", "require", "export_from"}
RouteKinds  == {"path_attr", "to_attr", "href_attr", "navigate"}

\* _extract_imports(content): the paths the four patterns capture, de-duplicated
ExtractImports(content) ==
      { st.path : st \in { x \in content : x.kind = "import_from" } }
    \cup { st.path : st \in { x \in content : x.kind = "import_bare" } }
    \cup { st.path : st \in { x \in content : x.kind = "require" } }
    \cup { st.path : st \in { x \in content : x.kind \in {"import_from", "export_from"} } }

\* _extract_routes(content)
ExtractRoutes(content) == { st.path : st \in { x \in content : x.kind \in RouteKinds } }

\* the extensions an import must end with to become an edge
EdgeExts == {S_tsx, S_jsx, S_ts, S_js}

\* [os.path.basename(f) for f in files]
Basenames(fs) == { Basename(fs[i]) : i \in 1..Len(fs) }

\* C5 mutant: an edge is added without looking the target up among the files
EdgeTargetsUnresolved(imports, fs) ==
    { Basename(imp) : imp \in { x \in imports : \E ext \in EdgeExts : EndsWith(x, ext) } }

\* the targets of the edges one file adds
EdgeTargets(imports, fs) ==
    { t \in { Basename(imp) :
                 imp \in { x \in imports : \E ext \in EdgeExts : EndsWith(x, ext) } } :
          t \in Basenames(fs) }

\* what reading one file gave: its content, or an exception
ReadOk(content) == [ok |-> TRUE, content |-> content]
ReadError == [ok |-> FALSE, content |-> {}]

\* ---- inputs of the graph builder ----
MaxFiles == 3

P_src_A   == <<"s","r","c","/","A",".","t","s","x">>
P_lib_A   == <<"l","i","b","/","A",".","t","s","x">>
P_src_B   == <<"s","r","c","/","B",".","t","s">>
P_chart   == <<"s","r","c","/","c","h","a","r","t",".","j","s">>
I_A       == <<".","/","A",".","t","s","x">>
I_B       == <<".","/","B",".","t","s">>
I_react   == <<"r","e","a","c","t">>
I_chartjs == <<"c","h","a","r","t",".","j","s">>
I_C       == <<".","/","C",".","t","s","x">>
I_A_vue   == <<".","/","A",".","v","u","e">>
R_home    == <<"/","h","o","m","e">>

FilePaths == {P_src_A, P_lib_A, P_src_B, P_chart}

St(kind, path) == [kind |-> kind, path |-> path]

FileContents ==
    { {},
      { St("import_from", I_A), St("export_from", I_B) },
      { St("require", I_chartjs), St("import_bare", I_react) },
      { St("import_from", I_C), St("string", I_B), St("path_attr", R_home) },
      { St("import_from", I_A_vue), St("import_bare", I_B) } }

\* lists of distinct paths
FileLists ==
    { fs \in SeqsOf(FilePaths, 0, MaxFiles) :
          \A i, j \in 1..Len(fs) : i # j => fs[i] # fs[j] }

InitGraph ==
    /\ files \in FileLists
    /\ file_reads = <<>>
    /\ graph_nodes = {}
    /\ graph_edges = {}
    /\ file_roles = EmptyDict
    /\ route_map = EmptyDict
    /\ IdleRole /\ IdleFlows /\ IdleRun /\ IdleExtract /\ IdleValid /\ IdleFeat /\ IdleAnalyze
    /\ IdleCollect /\ IdleContent

\* one iteration of the loop over the files: the file is read and handled
ProcessFile(content) ==
    /\ Len(file_reads) < Len(files)
    /\ LET file_path == files[Len(file_reads) + 1]
           fname     == Basename(file_path)
           imports   == ExtractImports(content)
           targets   == EdgeTargets(imports, files)
           role      == ClassifyFileRole(fname, content, imports)
           routes    == ExtractRoutes(content)
       IN  /\ file_reads' = Append(file_reads, ReadOk(content))
           /\ graph_nodes' = graph_nodes \cup {fname} \cup targets
           /\ graph_edges' = graph_edges \cup { <<fname, t>> : t \in targets }
           /\ file_roles' = (fname :> role) @@ file_roles
           /\ route_map' = IF routes # {} THEN (fname :> routes) @@ route_map
                            ELSE route_map
    /\ UNCHANGED <<files, notGraph>>

\* one iteration of the loop over the files: open() or read() raises, the
\* except clause prints and the loop goes on
ProcessFileFails ==
    /\ Len(file_reads) < Len(files)
    /\ file_reads' = Append(file_reads, ReadError)
    /\ UNCHANGED <<files, graph_nodes, graph_edges, file_roles, route_map, notGraph>>

NextGraph ==
    \/ \E content \in FileContents : ProcessFile(content)
    \/ ProcessFileFails

SpecGraph == InitGraph /\ [][NextGraph]_vars

(***************************************************************************)
(* The run: generate_tests                                                 *)
(*                                                                         *)
(* A multi-line str is the list str.split('\n') gives, so the empty str is *)
(* the list holding one empty line.                                        *)
(***************************************************************************)
EmptyText == << <<>> >>

\* '\n'.join(lines)
JoinLines(lines) == IF lines = <<>> THEN EmptyText ELSE lines

\* the grave accent character, which has to be named
BQ == "grave"
S_fence_ts == <<BQ, BQ, BQ, "t","y","p","e","s","c","r","i","p","t">>
S_fence    == <<BQ, BQ, BQ>>

\* a variant of the loop below in which the closing fence does not end the loop
RECURSIVE ExtractLoopPastClosingFence(_, _, _, _)
ExtractLoopPastClosingFence(lines, fname, in_code_block, test_content) ==
    IF lines = <<>> THEN test_content
    ELSE LET line == Head(lines)
             rest == Tail(lines)
         IN  IF StartsWith(Strip(line), fname \o <<":">>)
             THEN ExtractLoopPastClosingFence(rest, fname, in_code_block, test_content)
             ELSE IF StartsWith(Strip(line), S_fence_ts)
             THEN ExtractLoopPastClosingFence(rest, fname, TRUE, test_content)
             ELSE IF Strip(line) = S_fence /\ in_code_block
             THEN ExtractLoopPastClosingFence(rest, fname, in_code_block, test_content)
             ELSE IF in_code_block
             THEN ExtractLoopPastClosingFence(rest, fname, in_code_block,
                                              Append(test_content, line))
             ELSE ExtractLoopPastClosingFence(rest, fname, in_code_block, test_content)

\* the loop of _extract_test_content_from_response over the lines left
RECURSIVE ExtractLoop(_, _, _, _)
ExtractLoop(lines, fname, in_code_block, test_content) ==
    IF lines = <<>> THEN test_content
    ELSE LET line == Head(lines)
             rest == Tail(lines)
         IN  IF StartsWith(Strip(line), fname \o <<":">>)
             THEN ExtractLoop(rest, fname, in_code_block, test_content)
             ELSE IF StartsWith(Strip(line), S_fence_ts)
             THEN ExtractLoop(rest, fname, TRUE, test_content)
             ELSE IF Strip(line) = S_fence /\ in_code_block
             THEN test_content
             ELSE IF in_code_block
             THEN ExtractLoop(rest, fname, in_code_block, Append(test_content, line))
             ELSE ExtractLoop(rest, fname, in_code_block, test_content)

\* _extract_test_content_from_response(response_text, filename)
ExtractTestContent(answer, fname) ==
    JoinLines(ExtractLoop(answer, fname, FALSE, <<>>))

\* what requests.post gave: an exception (timeout, connection error) or a status
RequestOutcomes == {"timeout", "connection_error", "status_500", "status_200"}
RequestFailures == {"timeout", "connection_error", "status_500"}

\* a variant of TestForFlow in which the status code is not looked at
TestForFlowIgnoringStatus(outcome, log_ok, answer, fname) ==
    IF outcome \in {"status_200", "status_500"} /\ log_ok
    THEN ExtractTestContent(answer, fname)
    ELSE EmptyText

\* what _generate_test_for_flow returns once the prompt file is written:
\* the extracted content on status 200, "" on any other status and on any
\* exception of the try block (the request, or writing the response log)
TestForFlow(outcome, log_ok, answer, fname) ==
    IF outcome = "status_200" /\ log_ok
    THEN ExtractTestContent(answer, fname)
    ELSE EmptyText

S_import_marker == <<"i","m","p","o","r","t"," ","{"," ","t","e","s","t",","," ","e","x","p","e","c","t"," ","}">>
S_test_call     == <<"t","e","s","t","(","'">>
S_test_describe == <<"t","e","s","t",".","d","e","s","c","r","i","b","e">>

\* marker in content, for a marker without newline
TextContains(text, marker) == \E i \in 1..Len(text) : Contains(text[i], marker)

\* open(flow_prompt_file, 'w') of line 202 can succeed: the file is placed in
\* LOG_DIR under a name built from the flow's filename, so a "/" in it names a
\* directory that does not exist
PromptPathWritable(fname) == ~Contains(fname, <<"/">>)

\* the test of line 1778
HasTestStructure(content) ==
    /\ TextContains(content, S_import_marker)
    /\ (TextContains(content, S_test_describe) \/ TextContains(content, S_test_call))

NoValidation == [total_tests |-> 0, valid_tests |-> 0, invalid_tests |-> 0,
                 validation_errors |-> <<>>]

\* a variant of the loop below in which a file that cannot be read is passed
\* over without being counted
RECURSIVE ValidateLoopSkippingUnreadable(_, _, _, _)
ValidateLoopSkippingUnreadable(names, store, unreadable, acc) ==
    IF names = <<>> THEN acc
    ELSE LET test_file == Head(names)
             readable  == test_file \in DOMAIN store /\ test_file \notin unreadable
         IN  ValidateLoopSkippingUnreadable(Tail(names), store, unreadable,
                 IF ~readable THEN acc
                 ELSE IF HasTestStructure(store[test_file])
                 THEN [acc EXCEPT !.valid_tests = @ + 1]
                 ELSE [acc EXCEPT !.invalid_tests = @ + 1,
                                  !.validation_errors = Append(@, test_file)])

\* the loop of _validate_tests; unreadable: the files whose open() raises
RECURSIVE ValidateLoop(_, _, _, _)
ValidateLoop(names, store, unreadable, acc) ==
    IF names = <<>> THEN acc
    ELSE LET test_file == Head(names)
             readable  == test_file \in DOMAIN store /\ test_file \notin unreadable
         IN  ValidateLoop(Tail(names), store, unreadable,
                 IF readable /\ HasTestStructure(store[test_file])
                 THEN [acc EXCEPT !.valid_tests = @ + 1]
                 ELSE [acc EXCEPT !.invalid_tests = @ + 1,
                                  !.validation_errors = Append(@, test_file)])

\* _validate_tests(test_files)
ValidateTests(names, store, unreadable) ==
    LET acc == ValidateLoop(names, store, unreadable, NoValidation)
    IN  [acc EXCEPT !.total_tests = acc.valid_tests + acc.invalid_tests]

\* C3 mutant: the except clause re-raises
ExceptClauseReraises(step) == [status |-> "raised", success |-> FALSE, error |-> step]

\* the return of the except clause
ExceptClauseResult(step) == [status |-> "returned", success |-> FALSE, error |-> step]

\* the return at the end of the try block
SuccessResult(n, validation) ==
    [status |-> "returned", success |-> TRUE, error |-> "",
     test_files_generated |-> n, validation_results |-> validation]

S_tmp         == <<"/","t","m","p">>
S_var_folders == <<"/","v","a","r","/","f","o","l","d","e","r","s">>

\* the test of line 1833
LooksTemporary(dir) == StartsWith(dir, S_tmp) \/ StartsWith(dir, S_var_folders)

\* ---- inputs of the run ----
MaxRunDocLines == 2

U_remote == <<"h","t","t","p","s",":","/","/","h","/","r",".","g","i","t">>
D_home   == <<"/","h","o","m","e","/","u","/","a","p","p">>
D_tmp    == <<"/","t","m","p","/","a","p","p">>

\* what tempfile.mkdtemp() may return, by platform
TempDirs == { <<"/","t","m","p","/","t","m","p","a","b","1","2">>,
              <<"/","v","a","r","/","f","o","l","d","e","r","s","/","t","m","p","a","b","1","2">>,
              <<"C",":","/","T","e","m","p","/","t","m","p","a","b","1","2">> }

LocalDirs == {D_home, D_tmp}
RepoUrls == LocalDirs \cup {U_remote}

\* the text the generation service may put in the flow document
L_Slash == <<"#","#"," ","F","l","o","w",":"," ","A","/","B">>
RunDocuments ==
    SeqsOf({L_Create, L_Delete, L_Slash, L_step1}, 1, MaxRunDocLines) \cup {EmptyText}

T_import == S_import_marker
T_test   == <<"t","e","s","t","(","'","x","'",","," ","(",")"," ","=",">"," ","{","}",")">>
T_extra  == <<"t","e","s","t","(","'","x","'",","," ","(",")"," ","=",">"," ","{","}",")"," ","}">>

\* the text the generation service may answer for one flow
Responses ==
    { << <<"S","o","r","r","y">> >>,
      << S_fence_ts, S_fence >>,
      << S_fence_ts, T_import, T_test, S_fence >>,
      << S_fence_ts, T_import, T_extra, S_fence >>,
      << S_fence_ts, T_test >> }

InitRun ==
    /\ pc = "clone"
    /\ repo_url \in RepoUrls
    /\ temp_dir = <<>>
    /\ existing_dirs = LocalDirs
    /\ raised_at = "none"
    /\ result = [status |-> "none"]
    /\ cleanup_calls = 0
    /\ trace = <<>>
    /\ flow_log = <<>>
    /\ test_files = <<>>
    /\ disk = EmptyDict
    /\ validation_results = [status |-> "none"]
    /\ user_flows_content = <<>> /\ flows = <<>> /\ flows_pc = "idle"
    /\ IdleRole /\ IdleGraph /\ IdleExtract /\ IdleValid /\ IdleFeat /\ IdleAnalyze
    /\ IdleCollect /\ IdleContent

\* a step that moves on and changes nothing the later steps of this model read
Advance(from, to) ==
    /\ pc = from
    /\ pc' = to
    /\ trace' = Append(trace, from)

\* Step 1, a local directory: it is used in place
CloneRepositoryLocal ==
    /\ Advance("clone", "detect")
    /\ repo_url \in existing_dirs
    /\ temp_dir' = repo_url
    /\ UNCHANGED <<repo_url, existing_dirs, raised_at, result, cleanup_calls, flow_log,
                   test_files, disk, validation_results, user_flows_content, flows, notRun>>

\* Step 1, anything else: mkdtemp, then git clone, which may fail
CloneRepositoryRemote(dir, cloned) ==
    /\ pc = "clone"
    /\ repo_url \notin existing_dirs
    /\ trace' = Append(trace, "clone")
    /\ temp_dir' = dir
    /\ existing_dirs' = existing_dirs \cup {dir}
    /\ pc' = IF cloned THEN "detect" ELSE "except"
    /\ raised_at' = IF cloned THEN raised_at ELSE "clone"
    /\ UNCHANGED <<repo_url, result, cleanup_calls, flow_log, test_files, disk,
                   validation_results, user_flows_content, flows, notRun>>

runRest == <<repo_url, temp_dir, existing_dirs, raised_at, result, cleanup_calls, flow_log,
             test_files, disk, validation_results, user_flows_content, flows, notRun>>

\* Steps 2 to 5.5
DetectFramework       == Advance("detect", "collect") /\ UNCHANGED runRest
CollectSourceFiles    == Advance("collect", "graph") /\ UNCHANGED runRest
BuildDependencyGraph  == Advance("graph", "export") /\ UNCHANGED runRest
ExportGraphviz        == Advance("export", "analyze") /\ UNCHANGED runRest
AnalyzeApplication    == Advance("analyze", "flows_report") /\ UNCHANGED runRest

\* Step 5.6: the flow document is what the generation service answered, or ""
GenerateUserFlowsReport(doc) ==
    /\ Advance("flows_report", "parse_flows")
    /\ user_flows_content' = doc
    /\ UNCHANGED <<repo_url, temp_dir, existing_dirs, raised_at, result, cleanup_calls,
                   flow_log, test_files, disk, validation_results, flows, notRun>>

\* Step 6, first half: the flows are parsed
ParseUserFlowsStep ==
    /\ pc = "parse_flows"
    /\ trace' = Append(trace, "parse_flows")
    /\ flows' = ParseUserFlows(user_flows_content)
    /\ pc' = IF flows' = <<>> THEN "validate" ELSE "flow"
    /\ UNCHANGED <<repo_url, temp_dir, existing_dirs, raised_at, result, cleanup_calls,
                   flow_log, test_files, disk, validation_results, user_flows_content,
                   notRun>>

\* Step 6, one iteration of the loop over the flows: the prompt file is
\* written, one request is made, the content is extracted and saved
GenerateTestForFlow(outcome, log_ok, answer, save_ok) ==
    /\ pc = "flow"
    /\ PromptPathWritable(flows[Len(flow_log) + 1].filename)
    /\ LET flow         == flows[Len(flow_log) + 1]
           test_content == TestForFlow(outcome, log_ok, answer, flow.filename)
           saved        == test_content # EmptyText /\ save_ok
       IN  /\ disk' = IF saved THEN (flow.filename :> test_content) @@ disk ELSE disk
           /\ test_files' = IF saved THEN Append(test_files, flow.filename) ELSE test_files
           /\ flow_log' = Append(flow_log, [outcome |-> outcome, requests |-> 1,
                                            content |-> test_content, saved |-> saved])
    /\ trace' = Append(trace, "flow")
    /\ pc' = IF Len(flow_log) + 1 = Len(flows) THEN "validate" ELSE "flow"
    /\ UNCHANGED <<repo_url, temp_dir, existing_dirs, raised_at, result, cleanup_calls,
                   validation_results, user_flows_content, flows, notRun>>

\* Step 6: writing the prompt file of a flow raises (no such directory, disk
\* full, ...), outside any try block of _generate_test_for_flow
FlowPromptWriteFails ==
    /\ pc = "flow"
    /\ flow_log' = Append(flow_log, [outcome |-> "prompt_write_error", requests |-> 0,
                                     content |-> EmptyText, saved |-> FALSE])
    /\ trace' = Append(trace, "flow")
    /\ pc' = "except"
    /\ raised_at' = "flow"
    /\ UNCHANGED <<repo_url, temp_dir, existing_dirs, result, cleanup_calls, test_files,
                   disk, validation_results, user_flows_content, flows, notRun>>

\* Step 7
ValidateTestsStep(unreadable) ==
    /\ Advance("validate", "report")
    /\ validation_results' = ValidateTests(test_files, disk, unreadable)
    /\ UNCHANGED <<repo_url, temp_dir, existing_dirs, raised_at, result, cleanup_calls,
                   flow_log, test_files, disk, user_flows_content, flows, notRun>>

\* Step 8 and the return of the try block
GenerateReport ==
    /\ Advance("report", "finally")
    /\ result' = SuccessResult(Len(test_files), validation_results)
    /\ UNCHANGED <<repo_url, temp_dir, existing_dirs, raised_at, cleanup_calls, flow_log,
                   test_files, disk, validation_results, user_flows_content, flows, notRun>>

\* a step other than the clone and the flow loop raises
StepRaises ==
    /\ pc \in {"detect", "collect", "graph", "export", "analyze", "flows_report",
               "parse_flows", "validate", "report"}
    /\ trace' = Append(trace, pc)
    /\ raised_at' = pc
    /\ pc' = "except"
    /\ UNCHANGED <<repo_url, temp_dir, existing_dirs, result, cleanup_calls, flow_log,
                   test_files, disk, validation_results, user_flows_content, flows, notRun>>

\* except Exception: the failure is logged and returned
ExceptClause ==
    /\ pc = "except"
    /\ result' = ExceptClauseResult(raised_at)
    /\ pc' = "finally"
    /\ UNCHANGED <<repo_url, temp_dir, existing_dirs, raised_at, cleanup_calls, trace,
                   flow_log, test_files, disk, validation_results, user_flows_content,
                   flows, notRun>>

\* finally: _cleanup_temp_directory(); rmtree may fail, which is caught
CleanupTempDirectory(removed) ==
    /\ pc = "finally"
    /\ existing_dirs' =
           IF temp_dir # <<>> /\ temp_dir \in existing_dirs /\ LooksTemporary(temp_dir)
              /\ removed
           THEN existing_dirs \ {temp_dir}
           ELSE existing_dirs
    /\ cleanup_calls' = cleanup_calls + 1
    /\ trace' = Append(trace, "cleanup")
    /\ pc' = "done"
    /\ UNCHANGED <<repo_url, temp_dir, raised_at, result, flow_log, test_files, disk,
                   validation_results, user_flows_content, flows, notRun>>

NextRun ==
    \/ CloneRepositoryLocal
    \/ \E dir \in TempDirs, cloned \in BOOLEAN : CloneRepositoryRemote(dir, cloned)
    \/ DetectFramework
    \/ CollectSourceFiles
    \/ BuildDependencyGraph
    \/ ExportGraphviz
    \/ AnalyzeApplication
    \/ \E doc \in RunDocuments : GenerateUserFlowsReport(doc)
    \/ ParseUserFlowsStep
    \/ \E outcome \in RequestOutcomes, log_ok \in BOOLEAN, answer \in Responses,
          save_ok \in BOOLEAN :
           GenerateTestForFlow(outcome, log_ok, answer, save_ok)
    \/ FlowPromptWriteFails
    \/ \E unreadable \in SUBSET {test_files[i] : i \in 1..Len(test_files)} :
           ValidateTestsStep(unreadable)
    \/ GenerateReport
    \/ StepRaises
    \/ ExceptClause
    \/ \E removed \in BOOLEAN : CleanupTempDirectory(removed)

SpecRun == InitRun /\ [][NextRun]_vars

(***************************************************************************)
(* The extraction cascade: _parse_test_files                               *)
(*                                                                         *)
(* The regular expressions are applied to the text as the list of its      *)
(* lines. The account below is the one of re.findall with re.DOTALL for    *)
(* texts whose labels, headings and fences each stand on a line of their   *)
(* own, starting in the first column.                                      *)
(***************************************************************************)
\* no match (a filename is never empty)
None == <<>>

Digits == <<"0","1","2","3","4","5","6","7","8","9">>

\* \w
WordChars ==
    {UpperAlphabet[i] : i \in 1..Len(UpperAlphabet)}
    \cup {LowerAlphabet[i] : i \in 1..Len(LowerAlphabet)}
    \cup {Digits[i] : i \in 1..Len(Digits)} \cup {"_"}

\* str(n)
RECURSIVE Decimal(_)
Decimal(n) ==
    IF n < 10 THEN <<Digits[n + 1]>> ELSE Decimal(n \div 10) \o <<Digits[(n % 10) + 1]>>

\* the least element of a non-empty set of numbers
Least(S) == CHOOSE n \in S : \A m \in S : n <= m

\* a line \s* matches entirely
IsBlank(line) == Strip(line) = <<>>

\* str.strip() on a text of several lines
RECURSIVE DropBlankHead(_)
DropBlankHead(lines) ==
    IF lines # <<>> /\ IsBlank(Head(lines)) THEN DropBlankHead(Tail(lines)) ELSE lines
RECURSIVE DropBlankTail(_)
DropBlankTail(lines) ==
    IF lines # <<>> /\ IsBlank(lines[Len(lines)])
    THEN DropBlankTail(SubSeq(lines, 1, Len(lines) - 1))
    ELSE lines
TextStrip(lines) ==
    LET ls == DropBlankTail(DropBlankHead(lines))
    IN  IF ls = <<>> THEN EmptyText
        ELSE IF Len(ls) = 1 THEN <<Strip(ls[1])>>
        ELSE <<LStrip(ls[1])>> \o SubSeq(ls, 2, Len(ls) - 1) \o <<RStrip(ls[Len(ls)])>>

S_FILENAME == <<"F","I","L","E","N","A","M","E",":">>
S_hashes   == <<"#","#","#","#">>
S_typescript == <<"t","y","p","e","s","c","r","i","p","t">>
S_javascript == <<"j","a","v","a","s","c","r","i","p","t">>
S_lang_ts  == <<"t","s">>
S_lang_js  == <<"j","s">>

\* (\S+\.spec\.ts) on a token that ends the line
TokenName(tok) ==
    IF /\ EndsWith(tok, S_spec_ts)
       /\ Len(tok) > Len(S_spec_ts)
       /\ \A i \in 1..Len(tok) : tok[i] \notin Whitespace
    THEN tok ELSE None

\* FILENAME:\s*(\S+\.spec\.ts)\s*\n on one line
LabelName(line) ==
    IF StartsWith(line, S_FILENAME)
    THEN TokenName(Strip(SubSeq(line, Len(S_FILENAME) + 1, Len(line))))
    ELSE None

\* ####\s*(\S+\.spec\.ts)\s*\n on one line
HashName(line) ==
    IF StartsWith(line, S_hashes)
    THEN TokenName(Strip(SubSeq(line, Len(S_hashes) + 1, Len(line))))
    ELSE None

\* where the run of \w characters that ends at s[d] starts (d + 1: no run)
WordRunStart(s, d) ==
    Least({k \in 1..(d + 1) : \A j \in k..d : s[j] \in WordChars})

\* (\w+\.spec\.ts):\s*\n on one line
InlineName(line) ==
    LET r == RStrip(line)
        d == Len(r) - Len(S_spec_ts) - 1
        k == WordRunStart(r, d)
    IN  IF EndsWith(r, S_spec_ts \o <<":">>) /\ k <= d
        THEN SubSeq(r, k, Len(r) - 1)
        ELSE None

\* the heading of a strategy on one line
HeadingName(strategy, line) ==
    IF strategy = "hash" THEN HashName(line) ELSE InlineName(line)

TsLangs    == {S_typescript}
FenceLangs == {S_typescript, S_javascript, S_lang_ts, S_lang_js}

\* the line is an opening fence: a fence, a language, \s*
IsOpener(line, langs) ==
    \E g \in langs :
        /\ StartsWith(line, S_fence \o g)
        /\ IsBlank(SubSeq(line, Len(S_fence) + Len(g) + 1, Len(line)))

\* the first index from i on of a line that is not blank (Len + 1: none)
FirstNonBlank(lines, i) ==
    Least({j \in i..Len(lines) : ~IsBlank(lines[j])} \cup {Len(lines) + 1})

\* the first index from i on of a line that starts with a fence
FirstFence(lines, i) ==
    Least({j \in i..Len(lines) : StartsWith(lines[j], S_fence)} \cup {Len(lines) + 1})

NoBody == [matched |-> FALSE, content |-> EmptyText, next |-> 0]

\* \s*\n(.*?)\n``` after the opening fence of line o: the content starts at
\* the first line that is not blank and runs up to the next line that starts
\* with a fence; without such a line the content can only be blank, between
\* the opening fence and a fence that follows blank lines
FenceBody(lines, o) ==
    LET p == FirstNonBlank(lines, o + 1)
        q == FirstFence(lines, p + 1)
    IN  IF p > Len(lines) THEN NoBody
        ELSE IF q <= Len(lines)
        THEN [matched |-> TRUE, content |-> SubSeq(lines, p, q - 1), next |-> q + 1]
        ELSE IF p > o + 1 /\ StartsWith(lines[p], S_fence)
        THEN [matched |-> TRUE, content |-> EmptyText, next |-> p + 1]
        ELSE NoBody

\* a variant in which the content of a label runs to the end of the text
RECURSIVE LabelMatchesToEnd(_, _)
LabelMatchesToEnd(lines, i) ==
    IF i > Len(lines) THEN <<>>
    ELSE IF LabelName(lines[i]) # None /\ i < Len(lines)
    THEN <<[filename |-> LabelName(lines[i]), content |-> SubSeq(lines, i + 1, Len(lines))]>>
         \o LabelMatchesToEnd(lines, i + 1)
    ELSE LabelMatchesToEnd(lines, i + 1)

\* re.findall of the label pattern, from line i on
RECURSIVE LabelMatches(_, _)
LabelMatches(lines, i) ==
    IF i > Len(lines) THEN <<>>
    ELSE IF LabelName(lines[i]) # None /\ i < Len(lines)
    THEN LET j == Least({k \in (i + 1)..Len(lines) : Contains(lines[k], S_FILENAME)}
                        \cup {Len(lines) + 1})
         IN  <<[filename |-> LabelName(lines[i]), content |-> SubSeq(lines, i + 1, j - 1)]>>
             \o LabelMatches(lines, j)
    ELSE LabelMatches(lines, i + 1)

\* re.findall of a heading-then-fence pattern, from line i on
RECURSIVE HeadingMatches(_, _, _)
HeadingMatches(strategy, lines, i) ==
    IF i > Len(lines) THEN <<>>
    ELSE LET o == FirstNonBlank(lines, i + 1)
             b == FenceBody(lines, o)
         IN  IF /\ HeadingName(strategy, lines[i]) # None
                /\ o <= Len(lines)
                /\ IsOpener(lines[o], TsLangs)
                /\ b.matched
             THEN <<[filename |-> HeadingName(strategy, lines[i]), content |-> b.content]>>
                  \o HeadingMatches(strategy, lines, b.next)
             ELSE HeadingMatches(strategy, lines, i + 1)

\* re.findall of the bare fence pattern, from line i on
RECURSIVE FenceBlocks(_, _)
FenceBlocks(lines, i) ==
    IF i > Len(lines) THEN <<>>
    ELSE LET b == FenceBody(lines, i)
         IN  IF IsOpener(lines[i], FenceLangs) /\ b.matched
             THEN <<b.content>> \o FenceBlocks(lines, b.next)
             ELSE FenceBlocks(lines, i + 1)

\* block occurs in the text at line r, column k
OccursAt(lines, block, r, k) ==
    LET m == Len(block)
    IN  /\ r + m - 1 <= Len(lines)
        /\ IF m = 1
           THEN /\ k + Len(block[1]) - 1 <= Len(lines[r])
                /\ SubSeq(lines[r], k, k + Len(block[1]) - 1) = block[1]
           ELSE /\ SubSeq(lines[r], k, Len(lines[r])) = block[1]
                /\ \A t \in 2..(m - 1) : lines[r + t - 1] = block[t]
                /\ StartsWith(lines[r + m - 1], block[m])

\* response_text[:response_text.find(block_content)].split('\n'), for a block
\* that occurs in the text
LinesBefore(lines, block) ==
    LET r == Least({j \in 1..Len(lines) :
                       \E k \in 1..(Len(lines[j]) + 1) : OccursAt(lines, block, j, k)})
        k == Least({c \in 1..(Len(lines[r]) + 1) : OccursAt(lines, block, r, c)})
    IN  SubSeq(lines, 1, r - 1) \o <<SubSeq(lines[r], 1, k - 1)>>

\* re.search(r'(\w+\.spec\.ts)', line)
WordSpecName(line) ==
    LET D == {d \in 2..(Len(line) - Len(S_spec_ts) + 1) :
                 /\ SubSeq(line, d, d + Len(S_spec_ts) - 1) = S_spec_ts
                 /\ line[d - 1] \in WordChars}
    IN  IF D = {} THEN None
        ELSE SubSeq(line, WordRunStart(line, Least(D) - 1), Least(D) + Len(S_spec_ts) - 1)

\* how many of the lines before a block are searched for its filename
Lookback == 10

S_test_ == <<"t","e","s","t","_">>

\* f"test_{i+1}.spec.ts", n being i+1
PlaceholderName(n) == S_test_ \o Decimal(n) \o S_spec_ts

\* the filename of the n-th block by its context: the nearest of the lines
\* before it that names a spec file, else the placeholder
ContextName(lines, block, n) ==
    LET before == LinesBefore(lines, block)
        lo     == IF Len(before) > Lookback THEN Len(before) - Lookback + 1 ELSE 1
        named  == {j \in lo..Len(before) : WordSpecName(before[j]) # None}
    IN  IF named = {} THEN PlaceholderName(n)
        ELSE WordSpecName(before[CHOOSE j \in named : \A h \in named : h <= j])

\* expected_files, in the order of the dict
ExpectedFiles ==
    << [filename |-> <<"v","i","s","u","a","l",".","s","p","e","c",".","t","s">>,
        indicators |-> << <<"v","i","s","u","a","l">>,
                        <<"r","e","s","p","o","n","s","i","v","e">>,
                        <<"v","i","e","w","p","o","r","t">>,
                        <<"t","h","e","m","e">>,
                        <<"d","a","r","k">>,
                        <<"l","i","g","h","t">>,
                        <<"m","o","b","i","l","e">>,
                        <<"d","e","s","k","t","o","p">> >>],
       [filename |-> <<"f","l","o","w",".","s","p","e","c",".","t","s">>,
        indicators |-> << <<"f","l","o","w">>,
                        <<"l","o","g","i","n">>,
                        <<"n","a","v","i","g","a","t","i","o","n">>,
                        <<"u","s","e","r">>,
                        <<"a","u","t","h","e","n","t","i","c","a","t","i","o","n">>,
                        <<"w","i","z","a","r","d">>,
                        <<"f","o","r","m">> >>],
       [filename |-> <<"c","o","m","p","o","n","e","n","t",".","s","p","e","c",".","t","s">>,
        indicators |-> << <<"c","o","m","p","o","n","e","n","t">>,
                        <<"i","n","t","e","r","a","c","t","i","v","e">>,
                        <<"b","u","t","t","o","n">>,
                        <<"m","o","d","a","l">>,
                        <<"d","r","o","p","d","o","w","n">>,
                        <<"f","o","r","m">>,
                        <<"i","n","p","u","t">> >>],
       [filename |-> <<"a","c","c","e","s","s","i","b","i","l","i","t","y",".","s","p","e","c",".","t","s">>,
        indicators |-> << <<"a","c","c","e","s","s","i","b","i","l","i","t","y">>,
                        <<"a","r","i","a">>,
                        <<"k","e","y","b","o","a","r","d">>,
                        <<"f","o","c","u","s">>,
                        <<"s","c","r","e","e","n"," ","r","e","a","d","e","r">>,
                        <<"t","a","b">> >>] >>

\* sum(1 for indicator in indicators if indicator in content_lower)
Score(content_lower, indicators) ==
    Cardinality({h \in 1..Len(indicators) : TextContains(content_lower, indicators[h])})

\* a variant of the loop below in which an equal score replaces the match
RECURSIVE BestMatchLaterWins(_, _, _, _)
BestMatchLaterWins(content_lower, e, best_match, best_score) ==
    IF e > Len(ExpectedFiles) THEN best_match
    ELSE LET score == Score(content_lower, ExpectedFiles[e].indicators)
         IN  IF score >= best_score /\ score > 0
             THEN BestMatchLaterWins(content_lower, e + 1, ExpectedFiles[e].filename, score)
             ELSE BestMatchLaterWins(content_lower, e + 1, best_match, best_score)

\* the loop over expected_files from entry e on
RECURSIVE BestMatch(_, _, _, _)
BestMatch(content_lower, e, best_match, best_score) ==
    IF e > Len(ExpectedFiles) THEN best_match
    ELSE LET score == Score(content_lower, ExpectedFiles[e].indicators)
         IN  IF score > best_score
             THEN BestMatch(content_lower, e + 1, ExpectedFiles[e].filename, score)
             ELSE BestMatch(content_lower, e + 1, best_match, best_score)

\* the filename of the n-th block by its content
MappedName(block, n) ==
    LET best_match == BestMatch([i \in 1..Len(block) |-> ToLower(block[i])], 1, None, 0)
    IN  IF best_match # None THEN best_match ELSE PlaceholderName(n)

\* the candidates of the bare fence strategy
ContextCandidates(lines) ==
    LET blocks == FenceBlocks(lines, 1)
    IN  [n \in 1..Len(blocks) |->
            [filename |-> ContextName(lines, blocks[n], n), content |-> blocks[n]]]

\* the candidates of the content mapping
MappedCandidates(lines) ==
    LET blocks == FenceBlocks(lines, 1)
    IN  [n \in 1..Len(blocks) |->
            [filename |-> MappedName(blocks[n], n), content |-> blocks[n]]]

\* _save_file(filename, content): the file is written over; an error is caught
\* and reported by the return value, which is ok
SaveFile(store, fname, content, ok) ==
    IF ok THEN (fname :> content) @@ store ELSE store

\* the strategies in the order they are tried
StrategyRank == [label |-> 1, hash |-> 2, inline |-> 3, context |-> 4, mapping |-> 5]

\* a variant of the loop below in which an empty content is saved too
RECURSIVE SaveCandidatesKeepingEmpty(_, _, _, _, _)
SaveCandidatesKeepingEmpty(acc, strategy, cands, failed, n) ==
    IF n > Len(cands) THEN acc
    ELSE LET content == TextStrip(cands[n].content)
             ok      == n \notin failed
         IN  SaveCandidatesKeepingEmpty(
                 [store |-> SaveFile(acc.store, cands[n].filename, content, ok),
                  names |-> IF ok THEN Append(acc.names, cands[n].filename)
                            ELSE acc.names,
                  log   |-> Append(acc.log, [strategy |-> strategy,
                                             filename |-> cands[n].filename,
                                             content |-> content, saved |-> ok])],
                 strategy, cands, failed, n + 1)

\* the loop every strategy runs over its matches: the content is stripped,
\* dropped when empty, else saved, and the filename kept when the save worked.
\* acc holds the output directory, the strategy's list and the calls of
\* _save_file; failed are the matches whose save fails
RECURSIVE SaveCandidates(_, _, _, _, _)
SaveCandidates(acc, strategy, cands, failed, n) ==
    IF n > Len(cands) THEN acc
    ELSE LET content == TextStrip(cands[n].content)
             ok      == n \notin failed
         IN  SaveCandidates(
                 IF content = EmptyText THEN acc
                 ELSE [store |-> SaveFile(acc.store, cands[n].filename, content, ok),
                       names |-> IF ok THEN Append(acc.names, cands[n].filename)
                                 ELSE acc.names,
                       log   |-> Append(acc.log, [strategy |-> strategy,
                                                  filename |-> cands[n].filename,
                                                  content |-> content, saved |-> ok])],
                 strategy, cands, failed, n + 1)

\* a strategy starts with an empty list of its own
Start(store, log) == [store |-> store, names |-> <<>>, log |-> log]

\* _parse_filename_format
FilenameFormat(store, log, lines, failed) ==
    SaveCandidates(Start(store, log), "label", LabelMatches(lines, 1), failed, 1)

\* _parse_hash_format
HashFormat(store, log, lines, failed) ==
    SaveCandidates(Start(store, log), "hash", HeadingMatches("hash", lines, 1), failed, 1)

\* _parse_markdown_format: the bare fences are looked at only when the inline
\* pattern saved nothing
MarkdownFormat(store, log, lines, failed, failed2) ==
    LET inline == SaveCandidates(Start(store, log), "inline",
                                 HeadingMatches("inline", lines, 1), failed, 1)
    IN  IF inline.names = <<>>
        THEN SaveCandidates(inline, "context", ContextCandidates(lines), failed2, 1)
        ELSE inline

\* _parse_by_content_mapping
ContentMapping(store, log, lines, failed) ==
    SaveCandidates(Start(store, log), "mapping", MappedCandidates(lines), failed, 1)

\* the number of saved files below which the content mapping is tried
MinSaved == 4

\* a variant of the test below: the content mapping is tried whatever was saved
MappingAlwaysNeeded(names) == TRUE

\* the test of _parse_test_files before the content mapping
MappingNeeded(names) == Len(names) < MinSaved

\* a variant of the removal of duplicates that keeps the last of equal names
RECURSIVE DedupKeepingLast(_)
DedupKeepingLast(names) ==
    IF names = <<>> THEN <<>>
    ELSE LET rest == DedupKeepingLast(Tail(names))
         IN  IF \E i \in 1..Len(rest) : rest[i] = Head(names) THEN rest
             ELSE <<Head(names)>> \o rest

\* list(dict.fromkeys(names))
RECURSIVE Dedup(_)
Dedup(names) ==
    IF names = <<>> THEN <<>>
    ELSE LET front == Dedup(SubSeq(names, 1, Len(names) - 1))
             last  == names[Len(names)]
         IN  IF \E i \in 1..Len(front) : front[i] = last THEN front ELSE Append(front, last)

\* _parse_test_files when every save works: the list returned
ParseTestFiles(lines) ==
    LET s1 == FilenameFormat(EmptyDict, <<>>, lines, {})
        s2 == HashFormat(s1.store, s1.log, lines, {})
        s3 == MarkdownFormat(s2.store, s2.log, lines, {}, {})
        n3 == s1.names \o s2.names \o s3.names
        s4 == ContentMapping(s3.store, s3.log, lines, {})
    IN  Dedup(IF MappingNeeded(n3) THEN n3 \o s4.names ELSE n3)

\* ---- inputs of the cascade ----
MaxTextLines == 3

X_label  == <<"F","I","L","E","N","A","M","E",":"," ","a",".","s","p","e","c",".","t","s">>
X_label_b == <<"F","I","L","E","N","A","M","E",":"," ","b",".","s","p","e","c",".","t","s">>
X_label_up == <<"F","I","L","E","N","A","M","E",":"," ",".",".","/","b",".","s","p","e","c",".","t","s">>
X_hello  == <<"h","e","l","l","o">>
X_world  == <<"w","o","r","l","d">>
\* the label line of the n-th expected file
X_expected(n) == S_FILENAME \o <<" ">> \o ExpectedFiles[n].filename
X_form   == <<"f","o","r","m">>
X_mixed  == <<"L","o","g","i","n"," ","B","u","t","t","o","n"," ","M","O","D","A","L">>
X_hash   == <<"#","#","#","#"," ","a",".","s","p","e","c",".","t","s">>
X_inline == <<"a",".","s","p","e","c",".","t","s",":">>
X_ts     == S_fence \o S_typescript
X_js     == S_fence \o S_lang_js
X_x      == <<"x">>
X_login  == <<"l","o","g","i","n">>

TextLines == {X_label, X_label_b, X_hash, X_inline, X_ts, X_js, S_fence, X_x, X_login, <<>>}

\* longer texts: each heading with its fence; a label above a fence; a label
\* above a hash heading; blank lines around a fence; a word of the fence above
\* an inline file, and the same with a fence before it; four saved files
\* before the content mapping; labelled sections without fences: two names,
\* one name twice, blank lines around the content; a name stored again after
\* another one; one and all four of the expected files under labels, with a
\* fence for the content mapping; four fences for the content mapping: with a
\* keyword of two expected files, without a keyword, with more keywords of a
\* later expected file than of an earlier one, blank
LongTexts ==
    { <<X_hash, X_ts, X_x, S_fence>>,
      <<X_label_up, X_x>>,
      <<X_inline, X_ts, X_login, S_fence>>,
      <<X_label, X_js, X_x, S_fence>>,
      <<X_label, X_hash, X_ts, X_x, S_fence>>,
      <<X_hash, <<>>, X_ts, <<>>, X_x, S_fence>>,
      <<X_ts, <<>>, S_fence, X_x, X_ts, X_login, S_fence>>,
      <<X_login, X_inline, X_ts, X_login, S_fence>>,
      <<X_js, X_login, S_fence, X_inline, X_ts, X_x, S_fence>>,
      <<X_label, X_x, X_label, X_hash, X_ts, X_x, S_fence>>,
      <<X_label, X_hello, X_label_b, X_world>>,
      <<X_js, X_form, S_fence, X_js, X_x, S_fence, X_js, X_mixed, S_fence,
        X_js, <<>>, <<>>, S_fence>>,
      <<X_expected(1), X_js, X_login, S_fence>>,
      <<X_expected(1), X_x, X_expected(2), X_x, X_expected(3), X_x,
        X_expected(4), X_js, X_login, S_fence>>,
      <<X_label, X_x, X_label_b, X_hash, X_ts, X_x, S_fence>>,
      <<X_label, X_x, X_label, X_login>>,
      <<X_label_b, <<>>, X_x, X_login, <<>>, X_label, <<>>, X_login>> }

Texts == SeqsOf(TextLines, 1, MaxTextLines) \cup LongTexts

\* the candidates a save may fail for
MayFail(cands) == SUBSET (1..Len(cands))

InitExtract ==
    /\ response_text \in Texts
    /\ parse_pc = "filename_format"
    /\ files_saved = <<>>
    /\ save_log = <<>>
    /\ IdleRole /\ IdleFlows /\ IdleGraph /\ IdleRun /\ IdleValid /\ IdleFeat /\ IdleAnalyze
    /\ IdleCollect /\ IdleContent

\* what a strategy leaves behind in _parse_test_files
Extend(r, next) ==
    /\ disk' = r.store
    /\ save_log' = r.log
    /\ files_saved' = files_saved \o r.names
    /\ parse_pc' = next
    /\ UNCHANGED <<response_text, notExtract>>

ParseFilenameFormat ==
    /\ parse_pc = "filename_format"
    /\ \E failed \in MayFail(LabelMatches(response_text, 1)) :
           Extend(FilenameFormat(disk, save_log, response_text, failed), "hash_format")

ParseHashFormat ==
    /\ parse_pc = "hash_format"
    /\ \E failed \in MayFail(HeadingMatches("hash", response_text, 1)) :
           Extend(HashFormat(disk, save_log, response_text, failed), "markdown_format")

ParseMarkdownFormat ==
    /\ parse_pc = "markdown_format"
    /\ \E failed \in MayFail(HeadingMatches("inline", response_text, 1)),
          failed2 \in MayFail(FenceBlocks(response_text, 1)) :
           Extend(MarkdownFormat(disk, save_log, response_text, failed, failed2),
                  "content_mapping")

\* the content mapping, when fewer than four files were saved, then the
\* removal of the duplicates and the return
ParseByContentMapping ==
    /\ parse_pc = "content_mapping"
    /\ \E failed \in MayFail(FenceBlocks(response_text, 1)) :
           LET r == IF MappingNeeded(files_saved)
                    THEN ContentMapping(disk, save_log, response_text, failed)
                    ELSE Start(disk, save_log)
           IN  /\ disk' = r.store
               /\ save_log' = r.log
               /\ files_saved' = Dedup(files_saved \o r.names)
    /\ parse_pc' = "done"
    /\ UNCHANGED <<response_text, notExtract>>

NextExtract ==
    \/ ParseFilenameFormat
    \/ ParseHashFormat
    \/ ParseMarkdownFormat
    \/ ParseByContentMapping

SpecExtract == InitExtract /\ [][NextExtract]_vars

(***************************************************************************)
(* Artifact Validator: _is_valid_test_content                              *)
(***************************************************************************)
\* len(text), the newlines between the lines counted
RECURSIVE TextLen(_)
TextLen(text) ==
    IF Len(text) = 1 THEN Len(text[1])
    ELSE Len(Head(text)) + 1 + TextLen(Tail(text))

\* text.count(c) for a character c that is not the newline
RECURSIVE CountChar(_, _)
CountChar(text, c) ==
    IF text = <<>> THEN 0
    ELSE Cardinality({i \in 1..Len(Head(text)) : Head(text)[i] = c}) + CountChar(Tail(text), c)

\* the least length of the stripped content
MinLength == 100

S_test_open == <<"t","e","s","t","(">>

\* a variant in which the braces are not counted
IsValidIgnoringBraces(text) ==
    IF text = EmptyText \/ TextLen(TextStrip(text)) < MinLength THEN FALSE
    ELSE /\ TextContains(text, S_import_marker)
         /\ (TextContains(text, S_test_open) \/ TextContains(text, S_test_describe))

\* _is_valid_test_content(content)
IsValidTestContent(text) ==
    IF text = EmptyText \/ TextLen(TextStrip(text)) < MinLength THEN FALSE
    ELSE LET has_imports == TextContains(text, S_import_marker)
             has_tests   == TextContains(text, S_test_open)
                            \/ TextContains(text, S_test_describe)
             has_closing == CountChar(text, "{") = CountChar(text, "}")
         IN  has_imports /\ has_tests /\ has_closing

\* ---- inputs of the validator ----
MaxValidLines == 4

\* a comment line of n characters
Pad(n) == [i \in 1..n |-> "/"]

\* with the import line and the test line, the first pad gives 99 characters
\* and the second 100
ValidLines == {T_import, T_test, T_extra, S_test_describe, Pad(55), Pad(56),
               <<"{">>, <<" ">>, <<>>}

ValidContents == SeqsOf(ValidLines, 1, MaxValidLines)

InitValid ==
    /\ valid_content \in ValidContents
    /\ valid_pc = "start"
    /\ is_valid = FALSE
    /\ IdleRole /\ IdleFlows /\ IdleGraph /\ IdleRun /\ IdleExtract /\ IdleFeat /\ IdleAnalyze
    /\ IdleCollect /\ IdleContent

ValidateContent ==
    /\ valid_pc = "start"
    /\ is_valid' = IsValidTestContent(valid_content)
    /\ valid_pc' = "done"
    /\ UNCHANGED <<valid_content, notValid>>

NextValid == ValidateContent

SpecValid == InitValid /\ [][NextValid]_vars

(***************************************************************************)
(* Feature Synthesizer: _extract_features                                  *)
(***************************************************************************)
K_dashboard == <<"d","a","s","h","b","o","a","r","d">>
K_create == <<"c","r","e","a","t","e">>
K_edit == <<"e","d","i","t">>
K_delete == <<"d","e","l","e","t","e">>
K_project == <<"p","r","o","j","e","c","t">>
K_user == <<"u","s","e","r">>
K_profile == <<"p","r","o","f","i","l","e">>
K_content == <<"c","o","n","t","e","n","t">>
K_file == <<"f","i","l","e">>
K_upload == <<"u","p","l","o","a","d">>
K_download == <<"d","o","w","n","l","o","a","d">>
K_search == <<"s","e","a","r","c","h">>
K_filter == <<"f","i","l","t","e","r">>
K_setting == <<"s","e","t","t","i","n","g">>
K_config == <<"c","o","n","f","i","g">>
K_cart == <<"c","a","r","t">>
K_checkout == <<"c","h","e","c","k","o","u","t">>
K_order == <<"o","r","d","e","r">>
K_blog == <<"b","l","o","g">>
K_post == <<"p","o","s","t">>
K_article == <<"a","r","t","i","c","l","e">>
K_analytics == <<"a","n","a","l","y","t","i","c","s">>
K_report == <<"r","e","p","o","r","t">>
K_stats == <<"s","t","a","t","s">>
K_message == <<"m","e","s","s","a","g","e">>
K_chat == <<"c","h","a","t">>
K_notification == <<"n","o","t","i","f","i","c","a","t","i","o","n">>
K_calendar == <<"c","a","l","e","n","d","a","r">>
K_schedule == <<"s","c","h","e","d","u","l","e">>
K_event == <<"e","v","e","n","t">>

\* any(kw in route.lower() or kw in page.lower() for route in routes for page
\* in pages): the generator runs over the pairs of a route and a page
AnyPairNames(routes, pages, kw) ==
    \E r \in 1..Len(routes), p \in 1..Len(pages) :
        Contains(ToLower(routes[r]), kw) \/ Contains(ToLower(pages[p]), kw)

\* any(kw1 in route.lower() or kw2 in route.lower() ... for route in routes)
AnyRouteNames(routes, kws) ==
    \E r \in 1..Len(routes) : \E kw \in kws : Contains(ToLower(routes[r]), kw)

\* the tests of _extract_features in the order of the code, each with its tag
FeatureRules(routes, pages) ==
    <<
      [tag |-> "Dashboard Management", holds |-> AnyPairNames(routes, pages, K_dashboard)],
      [tag |-> "Create Operations", holds |-> AnyPairNames(routes, pages, K_create)],
      [tag |-> "Edit Operations", holds |-> AnyPairNames(routes, pages, K_edit)],
      [tag |-> "Delete Operations", holds |-> AnyPairNames(routes, pages, K_delete)],
      [tag |-> "Project Management", holds |-> AnyPairNames(routes, pages, K_project)],
      [tag |-> "User Management",
       holds |-> AnyRouteNames(routes, {K_user, K_profile})],
      [tag |-> "Content Management", holds |-> AnyPairNames(routes, pages, K_content)],
      [tag |-> "File Management",
       holds |-> AnyRouteNames(routes, {K_file, K_upload, K_download})],
      [tag |-> "Search and Filtering",
       holds |-> AnyRouteNames(routes, {K_search, K_filter})],
      [tag |-> "Settings and Configuration",
       holds |-> AnyRouteNames(routes, {K_setting, K_config})],
      [tag |-> "E-commerce",
       holds |-> AnyRouteNames(routes, {K_cart, K_checkout, K_order})],
      [tag |-> "Blog/Content Publishing",
       holds |-> AnyRouteNames(routes, {K_blog, K_post, K_article})],
      [tag |-> "Analytics and Reporting",
       holds |-> AnyRouteNames(routes, {K_analytics, K_report, K_stats})],
      [tag |-> "Communication",
       holds |-> AnyRouteNames(routes, {K_message, K_chat, K_notification})],
      [tag |-> "Calendar/Scheduling",
       holds |-> AnyRouteNames(routes, {K_calendar, K_schedule, K_event})] >>

RuleHolds(rule) == rule.holds

\* _extract_features(analysis)
ExtractFeatures(routes, pages) ==
    LET kept == SelectSeq(FeatureRules(routes, pages), RuleHolds)
    IN  [i \in 1..Len(kept) |-> kept[i].tag]

\* ---- inputs of the feature synthesizer ----
MaxRoutes == 2
MaxPages == 2

R_Dashboard == <<"/","D","a","s","h","b","o","a","r","d">>
R_create    == <<"/","p","r","o","j","e","c","t","s","/","c","r","e","a","t","e">>
R_profile   == <<"/","p","r","o","f","i","l","e">>
R_search    == <<"/","s","e","a","r","c","h">>
R_root      == <<"/">>
G_Dashboard == <<"D","a","s","h","b","o","a","r","d",".","j","s","x">>
G_Edit      == <<"E","d","i","t","C","o","n","t","e","n","t",".","j","s","x">>
G_Home      == <<"H","o","m","e",".","j","s","x">>

RouteNames == {R_Dashboard, R_create, R_profile, R_search, R_root}
PageNames  == {G_Dashboard, G_Edit, G_Home}

InitFeat ==
    /\ analysis_routes \in SeqsOf(RouteNames, 0, MaxRoutes)
    /\ analysis_pages \in SeqsOf(PageNames, 0, MaxPages)
    /\ features = <<>>
    /\ feat_pc = "start"
    /\ IdleRole /\ IdleFlows /\ IdleGraph /\ IdleRun /\ IdleExtract /\ IdleValid /\ IdleAnalyze
    /\ IdleCollect /\ IdleContent

ExtractFeaturesCall ==
    /\ feat_pc = "start"
    /\ features' = ExtractFeatures(analysis_routes, analysis_pages)
    /\ feat_pc' = "done"
    /\ UNCHANGED <<analysis_routes, analysis_pages, notFeat>>

NextFeat == ExtractFeaturesCall

SpecFeat == InitFeat /\ [][NextFeat]_vars

(***************************************************************************)
(* Application analysis: _analyze_application_functionality                *)
(*                                                                         *)
(* The content of a file is the list of its statements in the order of the *)
(* text: a quoted string ("string"), the argument of fetch('...')          *)
(* ("fetch"), the argument of axios.get('...') ("axios"), the text after   *)
(* "api." ("member"), and other text without blanks or quotes ("text").    *)
(***************************************************************************)
K_page == <<"p","a","g","e">>
K_component == <<"c","o","m","p","o","n","e","n","t">>
K_view == <<"v","i","e","w">>
K_screen == <<"s","c","r","e","e","n">>
K_login == <<"l","o","g","i","n">>
K_signup == <<"s","i","g","n","u","p">>
K_settings == <<"s","e","t","t","i","n","g","s">>
K_form == <<"f","o","r","m">>
K_Form == <<"F","o","r","m">>
S_slash == <<"/">>
S_api_prefix == <<"/","a","p","i","/">>

QuotedKinds == {"string", "fetch", "axios"}

\* re.findall of the quoted strings that hold a "/"
RECURSIVE RouteMatches(_)
RouteMatches(content) ==
    IF content = <<>> THEN <<>>
    ELSE (IF Head(content).kind \in QuotedKinds /\ Contains(Head(content).path, S_slash)
          THEN <<Head(content).path>> ELSE <<>>)
         \o RouteMatches(Tail(content))

\* re.findall of one of the first three API patterns: the statements of the kind
RECURSIVE KindMatches(_, _)
KindMatches(content, kind) ==
    IF content = <<>> THEN <<>>
    ELSE (IF Head(content).kind = kind THEN <<Head(content).path>> ELSE <<>>)
         \o KindMatches(Tail(content), kind)

\* \/api\/[^"'\s]+ in one statement: from the first /api/ that has a character
\* after it to the end of the statement
ApiTail(path) ==
    LET at == {i \in 1..(Len(path) - Len(S_api_prefix)) :
                  SubSeq(path, i, i + Len(S_api_prefix) - 1) = S_api_prefix}
    IN  IF at = {} THEN None ELSE SubSeq(path, Least(at), Len(path))

\* re.findall of the fourth API pattern
RECURSIVE ApiTails(_)
ApiTails(content) ==
    IF content = <<>> THEN <<>>
    ELSE (IF ApiTail(Head(content).path) # None
          THEN <<ApiTail(Head(content).path)>> ELSE <<>>)
         \o ApiTails(Tail(content))

\* the endpoints the loop over api_patterns looks at, in its order
ApiMatches(content) ==
    KindMatches(content, "fetch") \o KindMatches(content, "axios")
    \o KindMatches(content, "member") \o ApiTails(content)

\* a variant of the loop below that does not look the item up in the list
RECURSIVE AppendAll(_, _, _)
AppendAll(list, items, prefix) ==
    IF items = <<>> THEN list
    ELSE AppendAll(IF StartsWith(Head(items), prefix) THEN Append(list, Head(items))
                   ELSE list,
                   Tail(items), prefix)

\* for item in items: if item.startswith(prefix) and item not in list:
\* list.append(item)
RECURSIVE AppendNew(_, _, _)
AppendNew(list, items, prefix) ==
    IF items = <<>> THEN list
    ELSE AppendNew(IF /\ StartsWith(Head(items), prefix)
                      /\ \A i \in 1..Len(list) : list[i] # Head(items)
                   THEN Append(list, Head(items))
                   ELSE list,
                   Tail(items), prefix)

\* any(keyword in filename.lower() for keyword in keywords)
NameHasAny(fname, keywords) == \E kw \in keywords : Contains(ToLower(fname), kw)

PageKeywords == {K_page, K_component, K_view, K_screen}
FlowKeywords == {K_login, K_signup, K_dashboard, K_profile, K_settings, K_create, K_edit,
                 K_delete}

\* 'form' in content.lower() or 'Form' in filename
HasForm(fname, content) ==
    \/ \E i \in 1..Len(content) : Contains(ToLower(content[i].path), K_form)
    \/ Contains(fname, K_Form)

\* ---- inputs of the analysis ----
MaxAnalysedFiles == 2

N_LoginPage == <<"s","r","c","/","L","o","g","i","n","P","a","g","e",".","t","s","x">>
N_UserForm  == <<"s","r","c","/","U","s","e","r","F","o","r","m",".","j","s","x">>
N_client    == <<"s","r","c","/","c","l","i","e","n","t",".","t","s">>
E_home      == <<"/","h","o","m","e">>
E_about     == <<"/","a","b","o","u","t">>
E_relative  == <<"a","/","b">>
E_users     == <<"/","a","p","i","/","u","s","e","r","s">>
E_late      == <<"/","a","p","i","/","l","a","t","e">>
E_early     == <<"/","a","p","i","/","e","a","r","l","y">>
E_legacy    == <<"/","a","p","i","/","l","e","g","a","c","y">>
E_url       == <<"h","t","t","p",":","/","/","h","/","a","p","i","/","i","t","e","m","s">>
E_get       == <<"g","e","t">>

AnalysedPaths == {N_LoginPage, N_UserForm, N_client}

\* a route twice and an endpoint; a string that is no route, the same
\* endpoint, another route; an endpoint in plain text, one inside a URL and a
\* member of api; the routes in the other order and a form; nothing; an
\* endpoint in a string before an endpoint in a fetch call
AnalysedContents ==
    { <<St("string", E_home), St("fetch", E_users), St("string", E_home)>>,
      <<St("string", E_relative), St("axios", E_users), St("string", E_about)>>,
      <<St("text", E_legacy), St("fetch", E_url), St("member", E_get)>>,
      <<St("string", E_about), St("string", E_home), St("string", K_form)>>,
      <<>>,
      <<St("string", E_late), St("fetch", E_early)>> }

InitAnalyze ==
    /\ an_files \in SeqsOf(AnalysedPaths, 0, MaxAnalysedFiles)
    /\ an_reads = <<>>
    /\ analysis_routes = <<>>
    /\ analysis_pages = <<>>
    /\ analysis_api = <<>>
    /\ analysis_forms = <<>>
    /\ analysis_flows = <<>>
    /\ features = <<>>
    /\ feat_pc = "files"
    /\ IdleRole /\ IdleFlows /\ IdleGraph /\ IdleRun /\ IdleExtract /\ IdleValid
    /\ IdleCollect /\ IdleContent

\* one iteration of the loop over self.files: the file is read and analysed
AnalyzeFile(content) ==
    /\ feat_pc = "files"
    /\ Len(an_reads) < Len(an_files)
    /\ LET fname == Basename(an_files[Len(an_reads) + 1])
       IN  /\ an_reads' = Append(an_reads, ReadOk(content))
           /\ analysis_routes' = AppendNew(analysis_routes, RouteMatches(content), S_slash)
           /\ analysis_pages' = IF NameHasAny(fname, PageKeywords)
                                THEN Append(analysis_pages, fname) ELSE analysis_pages
           /\ analysis_forms' = IF HasForm(fname, content)
                                THEN Append(analysis_forms, fname) ELSE analysis_forms
           /\ analysis_api' = AppendNew(analysis_api, ApiMatches(content), S_api_prefix)
           /\ analysis_flows' = IF NameHasAny(fname, FlowKeywords)
                                THEN Append(analysis_flows, fname) ELSE analysis_flows
    /\ UNCHANGED <<an_files, features, feat_pc, notAnalyze>>

\* one iteration of the loop: open() or read() raises, the except clause
\* prints and the loop goes on
AnalyzeFileFails ==
    /\ feat_pc = "files"
    /\ Len(an_reads) < Len(an_files)
    /\ an_reads' = Append(an_reads, ReadError)
    /\ UNCHANGED <<an_files, analysis_routes, analysis_pages, analysis_api, analysis_forms,
                   analysis_flows, features, feat_pc, notAnalyze>>

\* after the loop: the features are derived and the analysis is returned
AnalysisFeatures ==
    /\ feat_pc = "files"
    /\ Len(an_reads) = Len(an_files)
    /\ features' = ExtractFeatures(analysis_routes, analysis_pages)
    /\ feat_pc' = "analysed"
    /\ UNCHANGED <<analyzeVars, analysis_routes, analysis_pages, notAnalyze>>

NextAnalyze ==
    \/ \E content \in AnalysedContents : AnalyzeFile(content)
    \/ AnalyzeFileFails
    \/ AnalysisFeatures

SpecAnalyze == InitAnalyze /\ [][NextAnalyze]_vars

(***************************************************************************)
(* Source Collector                                                        *)
(*                                                                         *)
(* The directory under self.temp_dir is the list of its files in the order *)
(* os.walk yields them.  A file is [path, size, stat_ok, text_ok]: size is *)
(* what os.path.getsize returns, stat_ok says whether os.path.getsize      *)
(* succeeds (it raises for a symbolic link whose target is missing), and   *)
(* text_ok whether open and read with encoding utf-8 succeed.              *)
(***************************************************************************)
MAX_FILE_SIZE == 10000

\* extensions, in the order of the outer loop
Extensions == <<S_tsx, S_jsx, S_js, S_ts, S_vue, S_html>>

F_small    == [path |-> <<"s","r","c","/","a",".","t","s">>, size |-> 1, stat_ok |-> TRUE, text_ok |-> TRUE]
F_limit    == [path |-> <<"s","r","c","/","b",".","t","s","x">>, size |-> MAX_FILE_SIZE, stat_ok |-> TRUE, text_ok |-> TRUE]
F_large    == [path |-> <<"c",".","j","s">>, size |-> MAX_FILE_SIZE + 1, stat_ok |-> TRUE, text_ok |-> TRUE]
F_binary   == [path |-> <<"d",".","j","s","x">>, size |-> 2, stat_ok |-> TRUE, text_ok |-> FALSE]
F_style    == [path |-> <<"e",".","c","s","s">>, size |-> 1, stat_ok |-> TRUE, text_ok |-> TRUE]
F_dangling == [path |-> <<"s","r","c","/","z",".","t","s">>, size |-> 0, stat_ok |-> FALSE, text_ok |-> FALSE]
F_page     == [path |-> <<"f",".","h","t","m","l">>, size |-> 1, stat_ok |-> TRUE, text_ok |-> TRUE]

TreeFiles == {F_small, F_limit, F_large, F_binary, F_style, F_dangling, F_page}

MaxTreeFiles == 3

\* the directories: every path appears once
Trees ==
    { t \in SeqsOf(TreeFiles, 0, MaxTreeFiles) :
        \A i, j \in 1..Len(t) : i # j => t[i] # t[j] }

InitCollect ==
    /\ tree \in Trees
    /\ ext_i = 1
    /\ walk_i = 1
    /\ collected = <<>>
    /\ collect_pc = "walking"
    /\ IdleRole /\ IdleFlows /\ IdleGraph /\ IdleRun /\ IdleExtract /\ IdleValid
    /\ IdleFeat /\ IdleAnalyze /\ IdleContent

\* the walk of the current extension is at a file
AtFile == collect_pc = "walking" /\ walk_i <= Len(tree)

\* filename.endswith(ext) for the file the walk is at
ExtensionMatches == EndsWith(Basename(tree[walk_i].path), Extensions[ext_i])

\* the filename does not end with the extension: nothing is done with it
OtherExtension ==
    /\ AtFile
    /\ ~ExtensionMatches
    /\ walk_i' = walk_i + 1
    /\ UNCHANGED <<tree, ext_i, collected, collect_pc, notCollect>>

\* os.path.getsize raises: it is called outside the try statement
InspectFails ==
    /\ AtFile
    /\ ExtensionMatches
    /\ ~tree[walk_i].stat_ok
    /\ collect_pc' = "raised"
    /\ UNCHANGED <<tree, ext_i, walk_i, collected, notCollect>>

SkipTooLarge ==
    /\ AtFile
    /\ ExtensionMatches
    /\ tree[walk_i].stat_ok
    /\ tree[walk_i].size > MAX_FILE_SIZE
    /\ walk_i' = walk_i + 1
    /\ UNCHANGED <<tree, ext_i, collected, collect_pc, notCollect>>

CollectFile ==
    /\ AtFile
    /\ ExtensionMatches
    /\ tree[walk_i].stat_ok
    /\ tree[walk_i].size <= MAX_FILE_SIZE
    /\ tree[walk_i].text_ok
    /\ collected' = Append(collected, tree[walk_i].path)
    /\ walk_i' = walk_i + 1
    /\ UNCHANGED <<tree, ext_i, collect_pc, notCollect>>

\* open or read raises inside the try statement
SkipUnreadable ==
    /\ AtFile
    /\ ExtensionMatches
    /\ tree[walk_i].stat_ok
    /\ tree[walk_i].size <= MAX_FILE_SIZE
    /\ ~tree[walk_i].text_ok
    /\ walk_i' = walk_i + 1
    /\ UNCHANGED <<tree, ext_i, collected, collect_pc, notCollect>>

\* the walk for this extension is over: the next one starts a new walk
NextExtension ==
    /\ collect_pc = "walking"
    /\ walk_i > Len(tree)
    /\ ext_i < Len(Extensions)
    /\ ext_i' = ext_i + 1
    /\ walk_i' = 1
    /\ UNCHANGED <<tree, collected, collect_pc, notCollect>>

ReturnFiles ==
    /\ collect_pc = "walking"
    /\ walk_i > Len(tree)
    /\ ext_i = Len(Extensions)
    /\ collect_pc' = "returned"
    /\ UNCHANGED <<tree, ext_i, walk_i, collected, notCollect>>

NextCollect ==
    \/ OtherExtension
    \/ InspectFails
    \/ SkipTooLarge
    \/ CollectFile
    \/ SkipUnreadable
    \/ NextExtension
    \/ ReturnFiles

SpecCollect == InitCollect /\ [][NextCollect]_vars

(***************************************************************************)
(* Content of one flow                                                     *)
(*                                                                         *)
(* _extract_test_content_from_response applied to a response, and what the *)
(* flow loop of generate_tests does with the string it returns.            *)
(***************************************************************************)
Y_fence_in  == <<" "," ",BQ,BQ,BQ,"t","y","p","e","s","c","r","i","p","t">>
Y_fence_out == <<" "," ",BQ,BQ,BQ," "," ">>
Y_named     == <<"a",".","s","p","e","c",".","t","s",":"," ","x">>
Y_code      == <<" "," ","c","o","d","e">>
Y_name      == <<"a",".","s","p","e","c",".","t","s">>

ResponseLines == { S_fence_ts, Y_fence_in, S_fence, Y_fence_out, Y_named, Y_code, X_x }

MaxResponseLines == 4

InitContent ==
    /\ flow_response \in SeqsOf(ResponseLines, 0, MaxResponseLines)
    /\ flow_fname = Y_name
    /\ flow_content = <<>>
    /\ content_pc = "start"
    /\ IdleRole /\ IdleFlows /\ IdleGraph /\ IdleRun /\ IdleExtract /\ IdleValid
    /\ IdleFeat /\ IdleAnalyze /\ IdleCollect

\* test_content = self._extract_test_content_from_response(response_text, filename)
ExtractContentCall ==
    /\ content_pc = "start"
    /\ flow_content' = ExtractTestContent(flow_response, flow_fname)
    /\ content_pc' = "extracted"
    /\ UNCHANGED <<flow_response, flow_fname, notContent>>

\* if test_content: success = self._save_file(flow['filename'], test_content)
SaveContent(save_ok) ==
    /\ content_pc = "extracted"
    /\ flow_content # EmptyText
    /\ content_pc' = IF save_ok THEN "saved" ELSE "save_failed"
    /\ UNCHANGED <<flow_response, flow_fname, flow_content, notContent>>

\* else: the failure is logged and nothing is saved
NoContent ==
    /\ content_pc = "extracted"
    /\ flow_content = EmptyText
    /\ content_pc' = "no_content"
    /\ UNCHANGED <<flow_response, flow_fname, flow_content, notContent>>

NextContent ==
    \/ ExtractContentCall
    \/ \E save_ok \in BOOLEAN : SaveContent(save_ok)
    \/ NoContent

SpecContent == InitContent /\ [][NextContent]_vars

(***************************************************************************)
(* Claims about the Role Classifier (checked under SpecRole)               *)
(***************************************************************************)
\* case-insensitive "kw occurs in s", stated independently of ToLower(s)
ContainsCI(s, kw) ==
    \E i \in 0..(Len(s) - Len(kw)) : ToLower(SubSeq(s, i + 1, i + Len(kw))) = kw

NamesRoute     == ContainsCI(filename, S_route) \/ ContainsCI(filename, S_router)
NamesAPI       == ContainsCI(filename, S_api) \/ ContainsCI(filename, S_service)
NamesComponent == \E ext \in ComponentExts : ContainsCI(filename, ext)
NamesForm      == ContainsCI(filename, S_form) \/ ContainsCI(filename, S_input)

S_UserForm_jsx == <<"U","s","e","r","F","o","r","m",".","j","s","x">>

\* C8 as stated: UserForm.jsx is classified Form.
C8_UserFormIsForm ==
    filename = S_UserForm_jsx => \A i \in 1..Len(role_calls) : role_calls[i].role = "Form"

\* C8 amended: UserForm.jsx is classified Component (the extension rule is tried
\* before the form rule).
C8_UserFormIsComponent ==
    filename = S_UserForm_jsx =>
        \A i \in 1..Len(role_calls) : role_calls[i].role = "Component"

\* C8 witness: UserForm.jsx has been classified.
C8_Witness == filename = S_UserForm_jsx /\ Len(role_calls) >= 1

(***************************************************************************)
(* Claims about the Flow Document Parser (checked under SpecFlows)         *)
(***************************************************************************)
\* the heading lines of the document: lines that, trimmed, begin with the marker
HeadingIndexes == { i \in 1..Len(user_flows_content) :
                        StartsWith(Strip(user_flows_content[i]), S_FlowMarker) }

\* index of the k-th heading line
NthHeading(k) ==
    CHOOSE i \in HeadingIndexes : Cardinality({j \in HeadingIndexes : j <= i}) = k

\* first line after the block of the k-th heading
BlockEnd(k) ==
    IF k < Cardinality(HeadingIndexes) THEN NthHeading(k + 1)
    ELSE Len(user_flows_content) + 1

\* the heading text after the marker
HeadingText(line) ==
    LET t == Strip(line) IN Strip(SubSeq(t, Len(S_FlowMarker) + 1, Len(t)))

S_Create_Item == <<"C","r","e","a","t","e"," ","I","t","e","m">>
S_Delete_Item == <<"D","e","l","e","t","e"," ","I","t","e","m">>
S_create_item_spec == <<"c","r","e","a","t","e","_","i","t","e","m",".","s","p","e","c",".","t","s">>
S_delete_item_spec == <<"d","e","l","e","t","e","_","i","t","e","m",".","s","p","e","c",".","t","s">>

\* the headings of the document are 'Create Item' then 'Delete Item'
ScenarioDocument ==
    /\ Cardinality(HeadingIndexes) = 2
    /\ user_flows_content[NthHeading(1)] = L_Create
    /\ user_flows_content[NthHeading(2)] = L_Delete

\* one record per heading line, in order, with the derived filename
FlowCountAndFilenames ==
    flows_pc = "done" =>
        /\ Len(flows) = Cardinality(HeadingIndexes)
        /\ \A k \in 1..Len(flows) :
               flows[k].filename = GenerateFlowFilename(flows[k].name)
        /\ ScenarioDocument =>
               /\ flows[1].name = S_Create_Item /\ flows[1].filename = S_create_item_spec
               /\ flows[2].name = S_Delete_Item /\ flows[2].filename = S_delete_item_spec

\* C9: the parser returns one record per heading line, in document order; each
\* record's name is the heading text after the marker and its filename is
\* _generate_flow_filename(name); 'Create Item' and 'Delete Item' give
\* create_item.spec.ts and delete_item.spec.ts.
C9_OneRecordPerHeading ==
    flows_pc = "done" =>
        /\ FlowCountAndFilenames
        /\ \A k \in 1..Len(flows) :
               k <= Cardinality(HeadingIndexes) =>
                   flows[k].name = HeadingText(user_flows_content[NthHeading(k)])

\* C10 as stated: a flow's content is its heading line followed by the document
\* lines up to the next heading or the end; nothing before the first heading is
\* in a flow; no heading, no flow.
C10_ContentIsTheLines ==
    flows_pc = "done" =>
        /\ Len(flows) = Cardinality(HeadingIndexes)
        /\ \A k \in 1..Len(flows) :
               flows[k].content =
                   SubSeq(user_flows_content, NthHeading(k), BlockEnd(k) - 1)

\* C10 amended: a flow's content is its heading line followed by the document
\* lines up to the next heading or the end, each line trimmed of its leading
\* and trailing whitespace; nothing before the first heading is in a flow; no
\* heading, no flow.
C10_ContentIsTheTrimmedLines ==
    flows_pc = "done" =>
        /\ Len(flows) = Cardinality(HeadingIndexes)
        /\ \A k \in 1..Len(flows) :
               flows[k].content =
                   [n \in 1..(BlockEnd(k) - NthHeading(k)) |->
                        Strip(user_flows_content[NthHeading(k) + n - 1])]

\* C10 witness: a parsed document with lines before its first heading, two
\* flows, and an indented line inside the first flow.
C10_Witness ==
    /\ flows_pc = "done"
    /\ Len(flows) = 2
    /\ NthHeading(1) > 1
    /\ Len(flows[1].content) >= 2
    /\ \E i \in (NthHeading(1) + 1)..(NthHeading(2) - 1) :
           Strip(user_flows_content[i]) # user_flows_content[i]

\* ---- the normal form of the filenames ----
\* C24: the filename of every flow is the lowercased name with spaces
\* replaced by "_", ":" stripped and doubled "_" collapsed, followed by
\* .spec.ts: it holds no space, no ":" and no two consecutive "_".
C24_FilenameNormalForm ==
    flows_pc = "done" =>
        \A k \in 1..Len(flows) :
            /\ EndsWith(flows[k].filename, S_spec_ts)
            /\ ~Contains(flows[k].filename, <<" ">>)
            /\ ~Contains(flows[k].filename, <<":">>)
            /\ ~Contains(flows[k].filename, <<"_","_">>)

\* what the replacements do establish: no space, no ":", no "-", no upper
\* case letter
FilenameWithoutSeparators ==
    flows_pc = "done" =>
        \A k \in 1..Len(flows) :
            /\ EndsWith(flows[k].filename, S_spec_ts)
            /\ \A i \in 1..Len(flows[k].filename) :
                   /\ flows[k].filename[i] \notin {" ", ":", "-"}
                   /\ \A u \in 1..Len(UpperAlphabet) :
                          flows[k].filename[i] # UpperAlphabet[u]

\* the flow named "A - B" got a filename with two consecutive "_"
DashNameKeepsDoubleJoin ==
    /\ flows_pc = "done"
    /\ \E k \in 1..Len(flows) :
           /\ flows[k].name = <<"A"," ","-"," ","B">>
           /\ flows[k].filename = <<"a","_","_","b">> \o S_spec_ts

(***************************************************************************)
(* Claims about the Graph Builder (checked under SpecGraph)                *)
(***************************************************************************)
\* the files handled so far whose read succeeded
ReadFiles == { i \in 1..Len(file_reads) : file_reads[i].ok }

\* file i imports path p, p ends in a source extension and its basename is the
\* basename of a collected file
Resolves(i, p) ==
    /\ p \in ExtractImports(file_reads[i].content)
    /\ \E ext \in EdgeExts : EndsWith(p, ext)
    /\ Basename(p) \in Basenames(files)

CleanupSteps == {i \in 1..Len(trace) : trace[i] = "cleanup"}

\* C3: generate_tests never propagates an exception: whatever step raised, it
\* returns a result, with success=False and the error when a step raised, and
\* the cleanup runs exactly once, after every pipeline step, on every exit.
C3_TotalWithCleanup ==
    /\ cleanup_calls = IF pc = "done" THEN 1 ELSE 0
    /\ pc = "done" =>
           /\ result.status = "returned"
           /\ raised_at # "none" => ~result.success /\ result.error = raised_at
           /\ raised_at = "none" => result.success
           /\ CleanupSteps = {Len(trace)}

\* C3 witness: a run whose clone made a temporary directory, whose validation
\* step raised, and which has returned.
C3_Witness ==
    /\ pc = "done"
    /\ raised_at = "validate"
    /\ temp_dir \in TempDirs
    /\ result.status = "returned"

\* the filenames of the flows handled so far whose artifact was saved
RECURSIVE SavedFilenames(_)
SavedFilenames(n) ==
    IF n = 0 THEN <<>>
    ELSE IF flow_log[n].saved
         THEN Append(SavedFilenames(n - 1), flows[n].filename)
         ELSE SavedFilenames(n - 1)

\* flow i was handled and its generation step failed
GenerationFailed(i) == flow_log[i].outcome # "status_200"

\* C4: at most one request per flow; a flow whose generation step failed leaves
\* no saved artifact and no entry in test_files; and after such a failure the
\* later flows are still handled and the run goes on to validation and report.
C4_FlowFailureIsolation ==
    /\ \A i \in 1..Len(flow_log) : flow_log[i].requests <= 1
    /\ \A i \in 1..Len(flow_log) : GenerationFailed(i) => ~flow_log[i].saved
    /\ test_files = SavedFilenames(Len(flow_log))
    /\ (\E i \in 1..Len(flow_log) : GenerationFailed(i)) =>
           /\ raised_at # "flow"
           /\ pc # "flow" => Len(flow_log) = Len(flows)

\* What holds of the failures the try block of _generate_test_for_flow catches
\* (timeout, connection error, status other than 200): one request, nothing
\* saved, and the loop goes on.
RequestFailureIsolation ==
    /\ \A i \in 1..Len(flow_log) : flow_log[i].requests <= 1
    /\ \A i \in 1..Len(flow_log) :
           flow_log[i].outcome \in RequestFailures =>
               /\ ~flow_log[i].saved
               /\ flow_log[i].content = EmptyText
               /\ i < Len(flow_log) \/ raised_at # "flow"
    /\ test_files = SavedFilenames(Len(flow_log))
    /\ DOMAIN disk = {test_files[i] : i \in 1..Len(test_files)}
    /\ (pc \in {"validate", "report"} \/ raised_at \in {"validate", "report"}
        \/ (pc \in {"finally", "done"} /\ raised_at = "none")) =>
           Len(flow_log) = Len(flows)

(***************************************************************************)
(* Claims about the extraction cascade (checked under SpecExtract)         *)
(***************************************************************************)
\* the calls of _save_file for filename f
SavesOf(f) == {i \in 1..Len(save_log) : save_log[i].filename = f}

\* two strategies gave a candidate for f
TwoStrategies(f) ==
    \E i, j \in SavesOf(f) : save_log[i].strategy # save_log[j].strategy

\* the elements of a list
Elements(names) == {names[i] : i \in 1..Len(names)}

\* C1: when every save works and two strategies give a non-empty candidate
\* for the same filename, the content stored for that filename at the end is
\* the one of the earlier strategy.
C1_EarlierStrategyWins ==
    (parse_pc = "done" /\ \A i \in 1..Len(save_log) : save_log[i].saved) =>
        \A f \in DOMAIN disk :
            TwoStrategies(f) => disk[f] = save_log[Least(SavesOf(f))].content

\* What holds instead: the file holds what the last save that worked wrote.
LastSaveWins ==
    \A f \in DOMAIN disk :
        LET done == {i \in SavesOf(f) : save_log[i].saved}
        IN  /\ done # {}
            /\ disk[f] = save_log[CHOOSE i \in done : \A j \in done : j <= i].content

\* C2: _parse_test_files never raises, whatever the text, and returns a list of
\* filenames; a failed save only takes its artifact out of the result, so the
\* result holds no filename that the run without failures does not return.
C2_SaveFailureOnlyRemoves ==
    /\ parse_pc \in {"filename_format", "hash_format", "markdown_format",
                     "content_mapping", "done"}
    /\ \A i \in 1..Len(files_saved) : files_saved[i] \in DOMAIN disk
    /\ parse_pc = "done" =>
           Elements(files_saved) \subseteq Elements(ParseTestFiles(response_text))

\* What holds of a failed save: the call returns, the next candidates are
\* still handled, and a filename is in the result exactly when one of its
\* saves worked; the result has no duplicates.
SaveFailureIsCaught ==
    /\ \A i \in 1..Len(files_saved) : files_saved[i] \in DOMAIN disk
    /\ Elements(files_saved)
           = {save_log[i].filename : i \in {j \in 1..Len(save_log) : save_log[j].saved}}
    /\ DOMAIN disk = Elements(files_saved)
    /\ parse_pc = "done" =>
           \A i, j \in 1..Len(files_saved) : files_saved[i] = files_saved[j] => i = j

\* _validate_tests has returned
Validated == "total_tests" \in DOMAIN validation_results

\* the artifacts _validate_tests counted in valid_tests
CountedValid ==
    {f \in Elements(test_files) :
        \A k \in 1..Len(validation_results.validation_errors) :
            validation_results.validation_errors[k] # f}

\* C12: every artifact that _validate_tests counts in valid_tests satisfies
\* the four validator conditions (minimum length, import marker, test marker,
\* balanced braces); an artifact with an unmatched closing brace is reported
\* in validation_errors.
C12_CountedValidMeetsAllFour ==
    Validated =>
        \A f \in CountedValid : IsValidTestContent(disk[f])

\* what the pipeline does establish: a counted artifact holds the import
\* marker and a test marker
CountedValidHasMarkers ==
    Validated =>
        \A f \in CountedValid :
            /\ TextContains(disk[f], S_import_marker)
            /\ TextContains(disk[f], S_test_open) \/ TextContains(disk[f], S_test_describe)

\* an artifact with an unmatched closing brace was counted valid
UnbalancedCountedValid ==
    /\ Validated
    /\ \E f \in CountedValid : CountChar(disk[f], "{") # CountChar(disk[f], "}")

\* ---- empty candidates ----
\* the candidates of a strategy whose content is not empty after stripping
NonEmptyCandidates(cands) ==
    {n \in 1..Len(cands) : TextStrip(cands[n].content) # EmptyText}

\* the calls of _save_file a strategy made
CallsOf(strategy) == {i \in 1..Len(save_log) : save_log[i].strategy = strategy}

\* C17: in every strategy a candidate whose content is empty after stripping
\* is neither saved nor added to the result: no call of _save_file has an
\* empty content, the label and the heading strategy call it once for each
\* of their other candidates, and every filename returned is stored with a
\* content that is not empty.
C17_EmptyCandidatesNeverCount ==
    /\ \A i \in 1..Len(save_log) : save_log[i].content # EmptyText
    /\ \A n \in 1..Len(files_saved) :
           /\ files_saved[n] \in DOMAIN disk
           /\ disk[files_saved[n]] # EmptyText
    /\ parse_pc # "filename_format" =>
           Cardinality(CallsOf("label"))
               = Cardinality(NonEmptyCandidates(LabelMatches(response_text, 1)))
    /\ parse_pc \notin {"filename_format", "hash_format"} =>
           Cardinality(CallsOf("hash"))
               = Cardinality(NonEmptyCandidates(HeadingMatches("hash", response_text, 1)))

\* C17 witness: a label with no content was dropped, and the label after it
\* was saved and returned.
C17_Witness ==
    /\ parse_pc = "done"
    /\ files_saved # <<>>
    /\ LET cands == LabelMatches(response_text, 1)
       IN  \E n \in 1..Len(cands) :
               /\ n \notin NonEmptyCandidates(cands)
               /\ cands[n].filename \notin Elements(files_saved)
               /\ cands[n].filename \notin DOMAIN disk

\* ---- the order of the result ----
\* the calls of _save_file that stored filename f
StoredAs(f) == {i \in 1..Len(save_log) : save_log[i].filename = f /\ save_log[i].saved}

\* C18: the list _parse_test_files returns holds each filename at most once,
\* it holds exactly the filenames that were stored, and they stand in the
\* order in which they were first stored by the strategies, which run in
\* their fixed order.
C18_FirstSeenOrder ==
    /\ \A i, j \in 1..Len(save_log) :
           i < j => StrategyRank[save_log[i].strategy] <= StrategyRank[save_log[j].strategy]
    /\ parse_pc = "done" =>
           /\ \A n, m \in 1..Len(files_saved) : n # m => files_saved[n] # files_saved[m]
           /\ \A n \in 1..Len(files_saved) : StoredAs(files_saved[n]) # {}
           /\ \A i \in 1..Len(save_log) :
                  save_log[i].saved => save_log[i].filename \in Elements(files_saved)
           /\ \A n, m \in 1..Len(files_saved) :
                  n < m => Least(StoredAs(files_saved[n])) < Least(StoredAs(files_saved[m]))

\* C18 witness: a filename was stored, then another, then the first again;
\* the list returned holds both, the first one first.
C18_Witness ==
    /\ parse_pc = "done"
    /\ Len(files_saved) >= 2
    /\ \E i, j, k \in 1..Len(save_log) :
           /\ i < j /\ j < k
           /\ save_log[i].saved /\ save_log[j].saved /\ save_log[k].saved
           /\ save_log[i].filename = files_saved[1]
           /\ save_log[j].filename = files_saved[2]
           /\ save_log[k].filename = files_saved[1]

\* ---- the gate of the bare-fence strategy ----
\* a strategy before the bare-fence strategy stored a file
PriorStrategies == {"label", "hash", "inline"}
PriorResult(strategies) ==
    \E i \in 1..Len(save_log) : save_log[i].strategy \in strategies /\ save_log[i].saved

\* C19: the bare-fence strategy with backward search is executed only when
\* none of the label, heading and inline strategies produced a result for the
\* text.
C19_BareFenceOnlyWithoutPriorResults ==
    CallsOf("context") # {} => ~PriorResult(PriorStrategies)

\* what the test of line 1063 does establish: the bare-fence strategy is
\* executed only when the inline strategy stored nothing
BareFenceOnlyWithoutInlineResults ==
    CallsOf("context") # {} => ~PriorResult({"inline"})

\* the label strategy stored a file and the bare-fence strategy stored one
\* after it
BareFenceAfterLabelResult ==
    /\ parse_pc = "done"
    /\ \E i, j \in 1..Len(save_log) :
           /\ save_log[i].strategy = "label" /\ save_log[i].saved
           /\ save_log[j].strategy = "context" /\ save_log[j].saved

\* ---- the gate of the content mapping ----
\* the expected filenames the strategies before the content mapping stored
RecoveredExpected ==
    {n \in 1..Len(ExpectedFiles) :
        \E i \in 1..Len(save_log) :
            /\ save_log[i].strategy # "mapping" /\ save_log[i].saved
            /\ save_log[i].filename = ExpectedFiles[n].filename}

\* C20: the content mapping is executed only when the earlier strategies
\* recovered fewer than four distinct expected filenames (visual, flow,
\* component, accessibility .spec.ts).
C20_MappingOnlyBelowMinimum ==
    CallsOf("mapping") # {} => Cardinality(RecoveredExpected) < MinSaved

\* C20 witness: an expected filename was recovered by an earlier strategy,
\* fewer than four were, and the content mapping stored a file.
C20_Witness ==
    /\ parse_pc = "done"
    /\ RecoveredExpected # {}
    /\ Cardinality(RecoveredExpected) < MinSaved
    /\ \E i \in CallsOf("mapping") : save_log[i].saved

\* all four expected filenames were recovered, the text has a fence with
\* content, and the content mapping was not executed
MappingSkippedAfterFour ==
    /\ parse_pc = "done"
    /\ Cardinality(RecoveredExpected) = MinSaved
    /\ MappedCandidates(response_text) # <<>>
    /\ CallsOf("mapping") = {}

\* ---- the blocks the content mapping takes ----
\* C21: the content mapping gives a filename only to fenced blocks that are
\* still unlabelled: a block whose content an earlier strategy stored under a
\* filename is not saved again by the content mapping.
C21_MappingOnlyUnlabelledBlocks ==
    \A j \in CallsOf("mapping") :
        \A i \in 1..Len(save_log) :
            (save_log[i].strategy # "mapping" /\ save_log[i].saved)
                => save_log[i].content # save_log[j].content

\* the heading strategy stored a block under its filename and the content
\* mapping stored the same block under another filename
HeadingBlockMappedAgain ==
    /\ parse_pc = "done"
    /\ \E i \in CallsOf("hash"), j \in CallsOf("mapping") :
           /\ save_log[i].saved /\ save_log[j].saved
           /\ save_log[i].content = save_log[j].content
           /\ save_log[i].filename # save_log[j].filename
           /\ save_log[j].filename \in Elements(files_saved)

\* ---- the scores of the content mapping ----
\* the fenced blocks of the response
Blocks == FenceBlocks(response_text, 1)

\* how many keywords of the e-th expected file occur in the block, upper and
\* lower case alike
KeywordScore(block, e) ==
    Cardinality({h \in 1..Len(ExpectedFiles[e].indicators) :
                    \E l \in 1..Len(block) :
                        ContainsCI(block[l], ExpectedFiles[e].indicators[h])})

\* the expected files with the highest score for the block
TopScored(block) ==
    {e \in 1..Len(ExpectedFiles) :
        \A f \in 1..Len(ExpectedFiles) : KeywordScore(block, f) <= KeywordScore(block, e)}

\* the filename the n-th block is to get
AssignedName(block, n) ==
    IF \A e \in 1..Len(ExpectedFiles) : KeywordScore(block, e) = 0
    THEN PlaceholderName(n)
    ELSE ExpectedFiles[Least(TopScored(block))].filename

\* the blocks with content, and the place of such a block among them
KeptBlocks == {n \in 1..Len(Blocks) : TextStrip(Blocks[n]) # EmptyText}
KeptRank(n) == Cardinality({m \in KeptBlocks : m <= n})

\* the content mapping was executed
MappingRan ==
    /\ parse_pc = "done"
    /\ Cardinality({i \in 1..Len(save_log) :
                       save_log[i].strategy # "mapping" /\ save_log[i].saved}) < MinSaved

\* the call of _save_file the content mapping made for the n-th block
MappingCall(n) ==
    save_log[Len(save_log) - Cardinality(CallsOf("mapping")) + KeptRank(n)]

\* C22: the content mapping gives each fenced block the expected filename
\* with the most keywords occurring in the block, case-insensitively; a tie
\* goes to the filename earlier in the order visual, flow, component,
\* accessibility; a block with no keyword gets the placeholder filename
\* built from its 1-based index.
C22_HighestScoreEarliestWins ==
    MappingRan =>
        /\ Cardinality(CallsOf("mapping")) = Cardinality(KeptBlocks)
        /\ \A n \in KeptBlocks :
               /\ MappingCall(n).strategy = "mapping"
               /\ MappingCall(n).content = TextStrip(Blocks[n])
               /\ MappingCall(n).filename = AssignedName(Blocks[n], n)

\* C22 witness: a block was blank; the content mapping named the second
\* block by its index, one block by the earlier of
\* two expected files with equal scores, and one block by an expected file
\* that scores higher than an earlier one with a positive score.
C22_Witness ==
    /\ MappingRan
    /\ KeptBlocks # 1..Len(Blocks)
    /\ \E n \in KeptBlocks :
           /\ n > 1
           /\ MappingCall(n).filename = PlaceholderName(n)
    /\ \E n \in KeptBlocks : \E e, f \in TopScored(Blocks[n]) :
           /\ e < f /\ KeywordScore(Blocks[n], e) > 0
           /\ MappingCall(n).filename = ExpectedFiles[e].filename
    /\ \E n \in KeptBlocks : \E e, f \in 1..Len(ExpectedFiles) :
           /\ e < f /\ 0 < KeywordScore(Blocks[n], e)
           /\ KeywordScore(Blocks[n], e) < KeywordScore(Blocks[n], f)
           /\ MappingCall(n).filename = ExpectedFiles[f].filename

\* ---- labelled sections without fences ----
\* the line is "FILENAME: <name>" with a name that ends in .spec.ts
IsSectionHead(line) ==
    /\ StartsWith(line, S_FILENAME \o <<" ">>)
    /\ LET name == SubSeq(line, Len(S_FILENAME) + 2, Len(line))
       IN  /\ Len(name) > Len(S_spec_ts)
           /\ EndsWith(name, S_spec_ts)
           /\ \A i \in 1..Len(name) : name[i] \notin Whitespace

SectionName(line) == SubSeq(line, Len(S_FILENAME) + 2, Len(line))

\* the lines of the response that hold the marker
Heads == {i \in 1..Len(response_text) : Contains(response_text[i], S_FILENAME)}

\* the n-th of them
NthHead(n) == CHOOSE h \in Heads : Cardinality({g \in Heads : g <= h}) = n

\* the content of the section that starts at line h: up to the next marker
\* or the end of the text
SectionContent(h) ==
    SubSeq(response_text, h + 1,
           Least({g \in Heads : g > h} \cup {Len(response_text) + 1}) - 1)

\* the response is made of labelled sections with content and has no fence
LabelledSections ==
    /\ 1 \in Heads
    /\ \A h \in Heads : /\ IsSectionHead(response_text[h])
                        /\ TextStrip(SectionContent(h)) # EmptyText
    /\ \A i \in 1..Len(response_text) : ~Contains(response_text[i], S_fence)

\* every call of _save_file worked
AllSaved == \A i \in 1..Len(save_log) : save_log[i].saved

\* the filenames are returned in order, each stored with its stripped content
SectionsExtracted ==
    /\ Len(files_saved) = Cardinality(Heads)
    /\ \A n \in 1..Len(files_saved) :
           files_saved[n] = SectionName(response_text[NthHead(n)])
    /\ \A h \in Heads :
           /\ SectionName(response_text[h]) \in DOMAIN disk
           /\ disk[SectionName(response_text[h])] = TextStrip(SectionContent(h))

DistinctNames ==
    \A g, h \in Heads : g # h => response_text[g] # response_text[h]

GraphBuilt == Len(file_reads) = Len(files)

\* C16: the node set of the graph _build_dependency_graph returns is exactly
\* the set of the basenames of the collected files.
C16_NodesAreCollectedBasenames ==
    GraphBuilt => graph_nodes = Basenames(files)

\* what the loop does establish: every node is the basename of a collected
\* file, and every file that was read has its node
NodesWithinCollected ==
    /\ graph_nodes \subseteq Basenames(files)
    /\ \A i \in 1..Len(file_reads) :
           file_reads[i] # ReadError => Basename(files[i]) \in graph_nodes

\* a collected file could not be read and has no node in the returned graph
UnreadFileHasNoNode ==
    /\ GraphBuilt
    /\ \E i \in 1..Len(files) :
           file_reads[i] = ReadError /\ Basename(files[i]) \notin graph_nodes

\* ---- files with the same basename (checked under SpecGraph) ----
\* file j was read, and it is the last of the collected files with its
\* basename, an earlier one of which was read too
LaterOfSameBasename(j) ==
    /\ j \in ReadFiles
    /\ \E i \in ReadFiles : i < j /\ Basename(files[i]) = Basename(files[j])
    /\ \A k \in 1..Len(files) : k > j => Basename(files[k]) # Basename(files[j])

\* the edges that leave the node
OutgoingEdges(node) == {e \in graph_edges : e[1] = node}

\* the edges the content of file j gives
EdgesOfFile(j) ==
    {<<Basename(files[j]), t>> :
        t \in EdgeTargets(ExtractImports(file_reads[j].content), files)}

\* C23: when two collected files have the same basename, the outgoing edges
\* of that node are exactly those of the later file, and the role and the
\* route entry of the node are those of the later file.
C23_LaterFileOverwrites ==
    GraphBuilt =>
        \A j \in 1..Len(files) : LaterOfSameBasename(j) =>
            LET node == Basename(files[j])
                routes == ExtractRoutes(file_reads[j].content)
            IN  /\ OutgoingEdges(node) = EdgesOfFile(j)
                /\ file_roles[node] = ClassifyFileRole(node, file_reads[j].content,
                                          ExtractImports(file_reads[j].content))
                /\ IF routes = {} THEN node \notin DOMAIN route_map
                   ELSE route_map[node] = routes

\* what the loop does establish: the role is that of the later file, the
\* edges are those of all the files with the basename
LaterRoleAllEdges ==
    GraphBuilt =>
        \A j \in 1..Len(files) : LaterOfSameBasename(j) =>
            LET node == Basename(files[j])
            IN  /\ file_roles[node] = ClassifyFileRole(node, file_reads[j].content,
                                          ExtractImports(file_reads[j].content))
                /\ OutgoingEdges(node) =
                       UNION {EdgesOfFile(i) :
                                 i \in {k \in ReadFiles : Basename(files[k]) = node}}

\* an edge of the earlier file is still in the graph although the later file
\* with the same basename has no such import
EarlierEdgeKept ==
    /\ GraphBuilt
    /\ \E j \in 1..Len(files) :
           /\ LaterOfSameBasename(j)
           /\ OutgoingEdges(Basename(files[j])) \ EdgesOfFile(j) # {}

\* the route entry of the earlier file is still in the map although the
\* later file with the same basename has no route
EarlierRoutesKept ==
    /\ GraphBuilt
    /\ \E j \in 1..Len(files) :
           /\ LaterOfSameBasename(j)
           /\ ExtractRoutes(file_reads[j].content) = {}
           /\ Basename(files[j]) \in DOMAIN route_map

\* ---- flows with the same filename (checked under SpecRun) ----
\* the flows handled so far whose artifact was saved under filename f
SavedFlows(f) == {i \in 1..Len(flow_log) : flow_log[i].saved /\ flows[i].filename = f}

\* two flows gave the same filename, and the artifacts of both were saved
SavedTwice(f) == Cardinality(SavedFlows(f)) >= 2

\* how often f stands in test_files
TimesListed(f) == Cardinality({n \in 1..Len(test_files) : test_files[n] = f})

\* C25: when two flows have the same filename and both yield content, the
\* artifact stored under the filename is that of the earlier flow, and the
\* filename is counted once in test_files and in the validation totals.
C25_FirstSeenWinsAcrossFlows ==
    \A f \in DOMAIN disk : SavedTwice(f) =>
        /\ disk[f] = flow_log[Least(SavedFlows(f))].content
        /\ TimesListed(f) = 1
        /\ Validated => validation_results.total_tests = Cardinality(Elements(test_files))

\* what the loop does establish: the artifact stored is that of the last flow
\* saved under the filename, the filename is listed once for every save, and
\* the validation counts every entry of the list
LastSeenWinsAcrossFlows ==
    /\ \A f \in DOMAIN disk :
           /\ SavedFlows(f) # {}
           /\ disk[f] = flow_log[CHOOSE i \in SavedFlows(f) :
                                     \A j \in SavedFlows(f) : j <= i].content
           /\ TimesListed(f) = Cardinality(SavedFlows(f))
    /\ Validated => validation_results.total_tests = Len(test_files)

\* two flows were saved under one filename with different contents; the
\* later content is stored, and the filename was validated twice
LaterFlowOverwrote ==
    /\ Validated
    /\ \E f \in DOMAIN disk : \E i, j \in SavedFlows(f) :
           /\ i < j
           /\ flow_log[i].content # flow_log[j].content
           /\ disk[f] = flow_log[j].content
           /\ TimesListed(f) = 2
           /\ validation_results.total_tests = 2

\* ---- the repository directory (checked under SpecRun) ----
\* the repository argument names a local directory
LocalRepository == repo_url \in LocalDirs

\* C15: _cleanup_temp_directory deletes a directory only if the clone step
\* created it: a local directory passed as the repository still exists after
\* the run, on success and on failure.
C15_LocalDirectoryPreserved ==
    (pc = "done" /\ LocalRepository) => repo_url \in existing_dirs

\* what the test of the path prefix does establish: a local directory whose
\* path starts with neither /tmp nor /var/folders is preserved
LocalDirectoryOutsideTmpPreserved ==
    (LocalRepository /\ ~LooksTemporary(repo_url)) => repo_url \in existing_dirs

\* a local directory below /tmp was removed by the cleanup of a run that
\* succeeded
LocalTmpDirectoryRemoved ==
    /\ pc = "done" /\ repo_url = D_tmp /\ result.success
    /\ D_tmp \notin existing_dirs

(***************************************************************************)
(* Claims about the Feature Synthesizer (checked under SpecFeat)           *)
(***************************************************************************)
\* the keywords looked up in routes and pages, each with its tag
PairTags ==
    { <<K_dashboard, "Dashboard Management">>, <<K_create, "Create Operations">>,
      <<K_edit, "Edit Operations">>, <<K_delete, "Delete Operations">>,
      <<K_project, "Project Management">>, <<K_content, "Content Management">> }

\* a route or a page name holds the keyword, upper and lower case alike
NamedIn(names, kw) == \E i \in 1..Len(names) : ContainsCI(names[i], kw)

\* C14: for every list of routes and every list of page names, either of
\* which may be empty, _extract_features emits the tag of a keyword that is
\* looked up in both lists when any route or any page name holds the keyword.
C14_TagWhenRouteOrPageMatches ==
    feat_pc = "done" =>
        \A kt \in PairTags :
            (NamedIn(analysis_routes, kt[1]) \/ NamedIn(analysis_pages, kt[1]))
                => kt[2] \in Elements(features)

\* what the code does establish: the same when neither list is empty, and no
\* such tag when one of them is
TagWhenBothListsNonEmpty ==
    feat_pc = "done" =>
        \A kt \in PairTags :
            kt[2] \in Elements(features) <=>
                /\ analysis_routes # <<>> /\ analysis_pages # <<>>
                /\ NamedIn(analysis_routes, kt[1]) \/ NamedIn(analysis_pages, kt[1])

\* a route holds "dashboard", no page was found, and no tag was emitted
DashboardRouteWithoutPages ==
    /\ feat_pc = "done"
    /\ analysis_routes = <<R_Dashboard>> /\ analysis_pages = <<>>
    /\ features = <<>>

(***************************************************************************)
(* Claims about the application analysis (checked under SpecAnalyze)       *)
(***************************************************************************)
\* the files analysed so far whose read succeeded
AnalysedFiles == {i \in 1..Len(an_reads) : an_reads[i].ok}

\* the route strings of file i: its quoted strings that begin with "/"
RoutesSeenIn(i) ==
    {an_reads[i].content[k].path : k \in
        {h \in 1..Len(an_reads[i].content) :
            /\ an_reads[i].content[h].kind \in QuotedKinds
            /\ StartsWith(an_reads[i].content[h].path, S_slash)}}

\* the endpoint strings of file i: what the API patterns find in it that
\* begins with "/api/"
EndpointsSeenIn(i) ==
    {e \in Elements(ApiMatches(an_reads[i].content)) : StartsWith(e, S_api_prefix)}

\* the first file a route, an endpoint was seen in
FirstRouteFile(r) == Least({i \in AnalysedFiles : r \in RoutesSeenIn(i)})
FirstEndpointFile(e) == Least({i \in AnalysedFiles : e \in EndpointsSeenIn(i)})

NoDuplicates(list) == \A n, m \in 1..Len(list) : n # m => list[n] # list[m]

\* C26: after any sequence of analysed files every entry of
\* analysis["routes"] begins with "/", every entry of
\* analysis["api_endpoints"] begins with "/api/", both lists have no
\* duplicates, hold the strings seen in the files, and keep the order in which
\* each string was first seen across the files.
C26_SignalLists ==
    /\ \A n \in 1..Len(analysis_routes) : StartsWith(analysis_routes[n], S_slash)
    /\ \A n \in 1..Len(analysis_api) : StartsWith(analysis_api[n], S_api_prefix)
    /\ NoDuplicates(analysis_routes) /\ NoDuplicates(analysis_api)
    /\ Elements(analysis_routes) = UNION {RoutesSeenIn(i) : i \in AnalysedFiles}
    /\ Elements(analysis_api) = UNION {EndpointsSeenIn(i) : i \in AnalysedFiles}
    /\ \A n, m \in 1..Len(analysis_routes) :
           n < m => FirstRouteFile(analysis_routes[n]) <= FirstRouteFile(analysis_routes[m])
    /\ \A n, m \in 1..Len(analysis_api) :
           n < m => FirstEndpointFile(analysis_api[n]) <= FirstEndpointFile(analysis_api[m])

\* C26 witness: two files were analysed; the second holds a route and an
\* endpoint of the first again, a new route, and a string with "/" that is
\* no route.
C26_Witness ==
    /\ feat_pc = "analysed"
    /\ AnalysedFiles = {1, 2}
    /\ RoutesSeenIn(1) \cap RoutesSeenIn(2) # {}
    /\ RoutesSeenIn(2) \ RoutesSeenIn(1) # {}
    /\ EndpointsSeenIn(1) \cap EndpointsSeenIn(2) # {}
    /\ \E k \in 1..Len(an_reads[2].content) :
           /\ Contains(an_reads[2].content[k].path, S_slash)
           /\ an_reads[2].content[k].path \notin Elements(analysis_routes)
    /\ Len(analysis_routes) = 3 /\ Len(analysis_api) = 1

(***************************************************************************)
(* Claims about the Artifact Validator (checked under SpecValid)           *)
(***************************************************************************)
\* the text as one string, the newline written "\n"
RECURSIVE Joined(_)
Joined(text) ==
    IF Len(text) = 1 THEN text[1] ELSE Head(text) \o <<"\n">> \o Joined(Tail(text))

\* how often c stands in the string s
Occurrences(s, c) == Cardinality({i \in 1..Len(s) : s[i] = c})

\* the four conditions, read off the content as one string
LongEnough       == Len(Joined(TextStrip(valid_content))) >= MinLength
HasImportMarker  == Contains(Joined(valid_content), S_import_marker)
HasTestMarker    ==
    Contains(Joined(valid_content), S_test_open)
    \/ Contains(Joined(valid_content), S_test_describe)
BracesBalanced   ==
    Occurrences(Joined(valid_content), "{") = Occurrences(Joined(valid_content), "}")

\* C11: _is_valid_test_content is true exactly when the stripped content has
\* at least the minimum length, the content holds the import marker, holds a
\* test marker, and has as many "{" as "}"; it is false for the empty content.
C11_ValidIffAllFour ==
    valid_pc = "done" =>
        /\ is_valid = (LongEnough /\ HasImportMarker /\ HasTestMarker /\ BracesBalanced)
        /\ valid_content = EmptyText => ~is_valid

\* C11 witness: a content of exactly the minimum length after stripping, with
\* whitespace around it, was found valid.
C11_Witness ==
    /\ valid_pc = "done"
    /\ is_valid
    /\ Len(Joined(TextStrip(valid_content))) = MinLength
    /\ TextStrip(valid_content) # valid_content

(***************************************************************************)
(* Claims about the Source Collector (checked under SpecCollect)           *)
(***************************************************************************)
HasAllowedExtension(f) ==
    \E e \in 1..Len(Extensions) : EndsWith(Basename(f.path), Extensions[e])

\* allowed extension, inspected, within the size limit and readable as text
Eligible(f) ==
    /\ HasAllowedExtension(f)
    /\ f.stat_ok
    /\ f.size <= MAX_FILE_SIZE
    /\ f.text_ok

EligiblePaths == { tree[i].path : i \in { j \in 1..Len(tree) : Eligible(tree[j]) } }

\* the returned list holds the eligible files and nothing else, each once
ReturnsEligibleOnce ==
    /\ Elements(collected) = EligiblePaths
    /\ \A i, j \in 1..Len(collected) : i # j => collected[i] # collected[j]

\* C27: the collector always returns, whatever files are oversized, unreadable
\* or impossible to inspect, and the list it returns holds exactly the files
\* with an allowed extension, a size of at most MAX_FILE_SIZE and a content
\* readable as text, each once.
C27_SkipAndContinue ==
    /\ collect_pc # "raised"
    /\ collect_pc = "returned" => ReturnsEligibleOnce

\* what the code does establish: when the collector returns, its list is the
\* eligible files, each once, and what is in the list so far is always eligible
ReturnedListIsEligibleOnce ==
    /\ collect_pc = "returned" => ReturnsEligibleOnce
    /\ Elements(collected) \subseteq EligiblePaths

\* the collector raised on a file it could not inspect, and an eligible file
\* of the directory is in no returned list
InspectionFailureLosesEligible ==
    /\ collect_pc = "raised"
    /\ EligiblePaths # {}
    /\ \E i \in 1..Len(tree) : HasAllowedExtension(tree[i]) /\ ~tree[i].stat_ok

\* an oversized and an unreadable file were skipped and the eligible file after
\* them was collected
SkippedAndContinued ==
    /\ collect_pc = "returned"
    /\ \E i, j, k \in 1..Len(tree) :
           /\ i < k /\ j < k
           /\ HasAllowedExtension(tree[i]) /\ tree[i].size > MAX_FILE_SIZE
           /\ HasAllowedExtension(tree[j]) /\ ~tree[j].text_ok /\ tree[j].stat_ok
           /\ tree[j].size <= MAX_FILE_SIZE
           /\ Eligible(tree[k])

(***************************************************************************)
(* Claims about where _save_file writes (checked under SpecExtract)        *)
(***************************************************************************)
\* TEST_OUTPUT_DIR of a run whose timestamp is t
TEST_OUTPUT_DIR == <<"r","u","n","_","f","i","l","e","s","/","r","u","n","_","t","/","t","e","s","t","s">>

S_dot == <<".">>
S_dotdot == <<".", ".">>

\* path.split('/')
RECURSIVE SplitPath(_, _, _)
SplitPath(path, n, part) ==
    IF n > Len(path) THEN <<part>>
    ELSE IF path[n] = "/" THEN <<part>> \o SplitPath(path, n + 1, <<>>)
    ELSE SplitPath(path, n + 1, Append(part, path[n]))

\* os.path.join(a, b) for a non-empty a
OsPathJoin(a, b) ==
    IF StartsWith(b, S_slash) THEN b
    ELSE IF EndsWith(a, S_slash) THEN a \o b
    ELSE a \o S_slash \o b

\* the directories a path leads through once '.', '..' and empty components
\* are resolved; a '..' that leaves the starting directory stays
RECURSIVE ResolveParts(_, _, _, _)
ResolveParts(stack, parts, n, abs) ==
    IF n > Len(parts) THEN stack
    ELSE LET part == parts[n]
         IN  IF part = <<>> \/ part = S_dot THEN ResolveParts(stack, parts, n + 1, abs)
             ELSE IF part = S_dotdot
             THEN IF stack # <<>> /\ stack[Len(stack)] # S_dotdot
                  THEN ResolveParts(SubSeq(stack, 1, Len(stack) - 1), parts, n + 1, abs)
                  ELSE IF abs THEN ResolveParts(stack, parts, n + 1, abs)
                  ELSE ResolveParts(Append(stack, part), parts, n + 1, abs)
             ELSE ResolveParts(Append(stack, part), parts, n + 1, abs)

\* where a path leads: from the root or from the working directory, and through
\* which directories
Location(path) ==
    LET abs == StartsWith(path, S_slash)
    IN  [abs |-> abs, parts |-> ResolveParts(<<>>, SplitPath(path, 1, <<>>), 1, abs)]

\* the path _save_file opens for a filename
SavedPath(fname) == OsPathJoin(TEST_OUTPUT_DIR, fname)

\* the file lies in TEST_OUTPUT_DIR or in a directory below it
InsideOutputDir(path) ==
    LET d == Location(TEST_OUTPUT_DIR)
        f == Location(path)
    IN  /\ f.abs = d.abs
        /\ Len(f.parts) > Len(d.parts)
        /\ SubSeq(f.parts, 1, Len(d.parts)) = d.parts

\* C28: every file _save_file wrote for a filename recovered from the
\* generated text lies inside TEST_OUTPUT_DIR.
C28_OutputContainment ==
    \A n \in 1..Len(save_log) :
        save_log[n].saved => InsideOutputDir(SavedPath(save_log[n].filename))

\* the filename of the label leads out of TEST_OUTPUT_DIR and the file was
\* written, in the run directory
WrittenOutsideOutputDir ==
    \E n \in 1..Len(save_log) :
        /\ save_log[n].saved
        /\ save_log[n].strategy = "label"
        /\ Location(SavedPath(save_log[n].filename)).parts
               = SubSeq(Location(TEST_OUTPUT_DIR).parts, 1,
                        Len(Location(TEST_OUTPUT_DIR).parts) - 1)
                 \o << <<"b",".","s","p","e","c",".","t","s">> >>

\* what holds: a filename without '/' is written inside TEST_OUTPUT_DIR
PlainNamesStayInside ==
    \A n \in 1..Len(save_log) :
        (save_log[n].saved /\ ~Contains(save_log[n].filename, S_slash))
            => InsideOutputDir(SavedPath(save_log[n].filename))

(***************************************************************************)
(* Claims about the validation counters (checked under SpecRun)            *)
(***************************************************************************)
\* the files of test_files whose content has the test structure and that are
\* reported all the same: opening them raised
UnreadableTestFiles ==
    { n \in 1..Len(test_files) :
        /\ HasTestStructure(disk[test_files[n]])
        /\ test_files[n] \in Elements(validation_results.validation_errors) }

\* C29: once _validate_tests has returned, total_tests = valid_tests +
\* invalid_tests = len(test_files), there is one validation error per invalid
\* file, every error is about a file of test_files, and every file without the
\* test structure has one.
C29_ValidationCounters ==
    Validated =>
        /\ validation_results.total_tests
               = validation_results.valid_tests + validation_results.invalid_tests
        /\ validation_results.total_tests = Len(test_files)
        /\ Len(validation_results.validation_errors) = validation_results.invalid_tests
        /\ Elements(validation_results.validation_errors) \subseteq Elements(test_files)
        /\ \A n \in 1..Len(test_files) :
               ~HasTestStructure(disk[test_files[n]])
                   => test_files[n] \in Elements(validation_results.validation_errors)

\* a file that could not be opened was counted invalid next to a file counted
\* valid
C29_Witness ==
    /\ Validated
    /\ UnreadableTestFiles # {}
    /\ validation_results.valid_tests = 1
    /\ validation_results.invalid_tests = 1
    /\ Len(test_files) = 2

(***************************************************************************)
(* Claims about the content of one flow (checked under SpecContent)        *)
(***************************************************************************)
LeastOf(S) == CHOOSE i \in S : \A j \in S : i <= j

\* the lines after the first opening line and before the first closing line
\* that follows it, or up to the end when none follows
LinesBetween(openings, closings) ==
    IF openings = {} THEN <<>>
    ELSE LET o == LeastOf(openings)
             after == { j \in closings : j > o }
             c == IF after = {} THEN Len(flow_response) + 1 ELSE LeastOf(after)
         IN  SubSeq(flow_response, o + 1, c - 1)

\* a can be had from b by leaving lines out
RECURSIVE IsSubsequence(_, _)
IsSubsequence(a, b) ==
    IF a = <<>> THEN TRUE
    ELSE IF b = <<>> THEN FALSE
    ELSE IF Head(a) = Head(b) THEN IsSubsequence(Tail(a), Tail(b))
    ELSE IsSubsequence(a, Tail(b))

\* the returned string is made of lines of the region, in their order
ReturnedFrom(region) == flow_content = EmptyText \/ IsSubsequence(flow_content, region)

\* the lines that start with the opening fence, and those equal to the closing one
OpeningLines ==
    { i \in 1..Len(flow_response) : StartsWith(flow_response[i], S_fence_ts) }
ClosingLines == { i \in 1..Len(flow_response) : flow_response[i] = S_fence }

\* the same once the whitespace around the line is removed
StrippedOpeningLines ==
    { i \in 1..Len(flow_response) : StartsWith(Strip(flow_response[i]), S_fence_ts) }
StrippedClosingLines == { i \in 1..Len(flow_response) : Strip(flow_response[i]) = S_fence }

\* an empty content is never saved
EmptyContentNotSaved ==
    flow_content = EmptyText => content_pc \notin {"saved", "save_failed"}

\* C30: the returned content is made only of lines located after the first
\* line starting with the typescript fence and before the first following
\* line equal to the closing fence (or the end of the text), in their order;
\* it is empty when no line starts with the typescript fence, and then the
\* flow saves nothing.
C30_ContentBetweenFences ==
    content_pc # "start" =>
        /\ ReturnedFrom(LinesBetween(OpeningLines, ClosingLines))
        /\ OpeningLines = {} => flow_content = EmptyText
        /\ EmptyContentNotSaved

\* C30 as the code has it: the opening line is the first line that starts with
\* the typescript fence once the whitespace around it is removed, and the
\* closing line the first following line that equals the closing fence once
\* the whitespace around it is removed.
C30_ContentBetweenStrippedFences ==
    content_pc # "start" =>
        /\ ReturnedFrom(LinesBetween(StrippedOpeningLines, StrippedClosingLines))
        /\ StrippedOpeningLines = {} => flow_content = EmptyText
        /\ EmptyContentNotSaved

\* an indented block followed by a line: the line of the block was returned
\* and saved, the line after the block was not
C30_Witness ==
    /\ content_pc = "saved"
    /\ flow_response = <<Y_fence_in, Y_code, Y_fence_out, X_x>>
    /\ flow_content = <<Y_code>>

\* the lines of the region that are neither labelled with the filename nor an
\* opening fence
IsContentLine(line) ==
    /\ ~StartsWith(Strip(line), flow_fname \o <<":">>)
    /\ ~StartsWith(Strip(line), S_fence_ts)

\* what is returned exactly: the lines of the region but those labelled with
\* the filename and the opening fences
ContentIsRegionWithoutMarkers ==
    content_pc # "start" =>
        flow_content = JoinLines(SelectSeq(
            LinesBetween(StrippedOpeningLines, StrippedClosingLines), IsContentLine))

\* a label line inside the block was left out of the content
LabelLineLeftOut ==
    /\ content_pc = "saved"
    /\ flow_response = <<S_fence_ts, Y_named, X_x, S_fence>>
    /\ flow_content = <<X_x>>

====
